---- MODULE Spec2Model ----
(***************************************************************************)
(* Model of ng-morph: the CSS selector engine (core/selector.ts), the      *)
(* template query engine (core/template.ts) and the node type guards       *)
(* (ast/types.ts).  Strings are sequences of one-character strings so that *)
(* the tokenising regular expression, toLowerCase, split and toString are  *)
(* modelled by what they do.                                               *)
(***************************************************************************)
EXTENDS Integers, Sequences, FiniteSets, TLC

(***************************************************************************)
(* Bounds of the model                                                     *)
(***************************************************************************)
\* longest selector string, counted in fragments of SelFrags
MaxFrags == 3

(***************************************************************************)
(* Characters                                                              *)
(***************************************************************************)
LowerChars == {"a", "b", "c", "d", "e", "i", "l", "n", "o", "p", "s", "t", "v", "x"}
UpperChars == {"A", "B", "D", "T"}
DQ == "\""
SQ == "'"
PunctChars == {":", "(", ")", ",", " ", ".", "#", "[", "]", "=", DQ, SQ, "-", "_", "*", "$"}
Alphabet == LowerChars \cup UpperChars \cup PunctChars

\* String.prototype.toLowerCase on one character
LowerOf(c) ==
  CASE c = "A" -> "a"
    [] c = "B" -> "b"
    [] c = "D" -> "d"
    [] c = "T" -> "t"
    [] OTHER -> c

\* String.prototype.toLowerCase
toLowerCase(s) == [i \in 1..Len(s) |-> LowerOf(s[i])]

\* the character classes of SELECTOR_REGEXP
\* [-\w]
TagChars == LowerChars \cup UpperChars \cup {"-", "_"}
\* [-.\w*\\$]
AttrNameChars == TagChars \cup {".", "*", "$"}
\* [^\]"']
AttrValueChars == Alphabet \ {"]", DQ, SQ}
\* \s
SpaceChars == {" "}

\* index just after the longest run of characters of C that starts at i
RunEnd(s, i, C) ==
  CHOOSE j \in i..(Len(s) + 1) :
    /\ (j = Len(s) + 1 \/ s[j] \notin C)
    /\ \A k \in i..(j - 1) : s[k] \in C

CharAt(s, i) == IF i >= 1 /\ i <= Len(s) THEN s[i] ELSE "EOF"

Slice(s, from, to) == [k \in 1..(to - from) |-> s[from + k - 1]]

RECURSIVE Flatten(_)
Flatten(ss) == IF ss = <<>> THEN <<>> ELSE Head(ss) \o Flatten(Tail(ss))

(***************************************************************************)
(* SELECTOR_REGEXP: one attempt of the alternation at position i (1-based) *)
(* alt = 0: no alternative matches here; index is where the match starts   *)
(* and next the index after it                                             *)
(***************************************************************************)
NoMatch == [alt |-> 0, index |-> 0, next |-> 0, tag |-> <<>>, prefix |-> <<>>, attribute |-> <<>>, value |-> <<>>]

\* group 1: ":not("
MatchNot(s, i) ==
  IF i + 4 <= Len(s) /\ Slice(s, i, i + 5) = <<":", "n", "o", "t", "(">>
  THEN [NoMatch EXCEPT !.alt = 1, !.index = i, !.next = i + 5]
  ELSE NoMatch

\* groups 2, 3: ([.#]?)[-\w]+
MatchTag(s, i) ==
  LET hasPrefix == CharAt(s, i) \in {".", "#"}
      start == IF hasPrefix THEN i + 1 ELSE i
      stop == RunEnd(s, start, TagChars)
  IN IF stop > start
     THEN [NoMatch EXCEPT !.alt = 2, !.index = i, !.next = stop,
                          !.tag = Slice(s, i, stop),
                          !.prefix = IF hasPrefix THEN <<s[i]>> ELSE <<>>]
     ELSE NoMatch

\* groups 4, 5, 6: \[([-.\w*\\$]+)(?:=(["']?)([^\]"']*)\5)?\]
MatchAttr(s, i) ==
  IF CharAt(s, i) # "[" THEN NoMatch
  ELSE
    LET nameEnd == RunEnd(s, i + 1, AttrNameChars)
        name == Slice(s, i + 1, nameEnd)
    IN IF nameEnd = i + 1 THEN NoMatch
       ELSE IF CharAt(s, nameEnd) = "]"
       THEN [NoMatch EXCEPT !.alt = 3, !.index = i, !.next = nameEnd + 1, !.attribute = name]
       ELSE IF CharAt(s, nameEnd) # "=" THEN NoMatch
       ELSE
         LET quoted == CharAt(s, nameEnd + 1) \in {DQ, SQ}
             vStart == IF quoted THEN nameEnd + 2 ELSE nameEnd + 1
             vEnd == RunEnd(s, vStart, AttrValueChars)
             close == IF quoted THEN vEnd + 1 ELSE vEnd
         IN IF /\ (quoted => CharAt(s, vEnd) = s[nameEnd + 1])
               /\ CharAt(s, close) = "]"
            THEN [NoMatch EXCEPT !.alt = 3, !.index = i, !.next = close + 1, !.attribute = name,
                                 !.value = Slice(s, vStart, vEnd)]
            ELSE NoMatch

\* group 7: ")"
MatchClose(s, i) ==
  IF CharAt(s, i) = ")" THEN [NoMatch EXCEPT !.alt = 4, !.index = i, !.next = i + 1] ELSE NoMatch

\* group 8: \s*,\s*
MatchComma(s, i) ==
  LET comma == RunEnd(s, i, SpaceChars)
  IN IF CharAt(s, comma) = ","
     THEN [NoMatch EXCEPT !.alt = 5, !.index = i, !.next = RunEnd(s, comma + 1, SpaceChars)]
     ELSE NoMatch

\* the alternation, tried left to right at one position
MatchAt(s, i) ==
  IF MatchNot(s, i).alt # 0 THEN MatchNot(s, i)
  ELSE IF MatchTag(s, i).alt # 0 THEN MatchTag(s, i)
  ELSE IF MatchAttr(s, i).alt # 0 THEN MatchAttr(s, i)
  ELSE IF MatchClose(s, i).alt # 0 THEN MatchClose(s, i)
  ELSE MatchComma(s, i)

\* SELECTOR_REGEXP.exec(s) of a global regexp whose lastIndex is li (0-based):
\* the leftmost match at or after li, or NoMatch
Exec(s, li) ==
  LET hits == {i \in (li + 1)..Len(s) : MatchAt(s, i).alt # 0}
  IN IF hits = {} THEN NoMatch
     ELSE MatchAt(s, CHOOSE i \in hits : \A j \in hits : i <= j)

(***************************************************************************)
(* class CssSelector.  element = <<>> stands for null.                     *)
(***************************************************************************)
NewCssSelector == [element |-> <<>>, classNames |-> <<>>, attrs |-> <<>>, notSelectors |-> <<>>]

setElement(sel, element) == [sel EXCEPT !.element = element]

\* addClassName without the toLowerCase call
addClassName_NoLower(sel, name) == [sel EXCEPT !.classNames = Append(@, name)]

addClassName(sel, name) == [sel EXCEPT !.classNames = Append(@, toLowerCase(name))]

addAttribute(sel, name, value) == [sel EXCEPT !.attrs = @ \o <<name, toLowerCase(value)>>]

ErrNesting == "Nesting :not in a selector is not allowed"
ErrMultiple == "Multiple selectors in :not are not supported"

\* the parser's locals; `current` is cssSelector when inNot is false and the
\* last entry of cssSelector.notSelectors when inNot is true
ParseStart == [results |-> <<>>, cssSelector |-> NewCssSelector, inNot |-> FALSE]

\* the object `current` refers to
Current(st) ==
  IF st.inNot
  THEN st.cssSelector.notSelectors[Len(st.cssSelector.notSelectors)]
  ELSE st.cssSelector

\* the parser's locals after the object `current` refers to became c
SetCurrent(st, c) ==
  IF st.inNot
  THEN [st EXCEPT !.cssSelector.notSelectors[Len(st.cssSelector.notSelectors)] = c]
  ELSE [st EXCEPT !.cssSelector = c]

\* the loop body with a ")" branch that leaves inNot and current alone
ParseToken_CloseKeepsNot(st, m) ==
  CASE m.alt = 1 ->
         [st EXCEPT !.inNot = TRUE,
                    !.cssSelector.notSelectors = Append(@, NewCssSelector)]
    [] m.alt = 2 ->
         IF m.prefix = <<"#">>
         THEN SetCurrent(st, addAttribute(Current(st), <<"i", "d">>, Tail(m.tag)))
         ELSE IF m.prefix = <<".">>
         THEN SetCurrent(st, addClassName(Current(st), Tail(m.tag)))
         ELSE SetCurrent(st, setElement(Current(st), m.tag))
    [] m.alt = 3 ->
         SetCurrent(st, addAttribute(Current(st), m.attribute, m.value))
    [] m.alt = 4 -> st
    [] m.alt = 5 ->
         [results |-> Append(st.results, st.cssSelector),
          cssSelector |-> NewCssSelector, inNot |-> FALSE]

\* one iteration of the while loop of CssSelector.parse, for a match m that
\* does not throw
ParseToken(st, m) ==
  CASE m.alt = 1 ->
         [st EXCEPT !.inNot = TRUE,
                    !.cssSelector.notSelectors = Append(@, NewCssSelector)]
    [] m.alt = 2 ->
         IF m.prefix = <<"#">>
         THEN SetCurrent(st, addAttribute(Current(st), <<"i", "d">>, Tail(m.tag)))
         ELSE IF m.prefix = <<".">>
         THEN SetCurrent(st, addClassName(Current(st), Tail(m.tag)))
         ELSE SetCurrent(st, setElement(Current(st), m.tag))
    [] m.alt = 3 ->
         SetCurrent(st, addAttribute(Current(st), m.attribute, m.value))
    [] m.alt = 4 -> [st EXCEPT !.inNot = FALSE]
    [] m.alt = 5 ->
         [results |-> Append(st.results, st.cssSelector),
          cssSelector |-> NewCssSelector, inNot |-> FALSE]

\* the loop body without the nesting check
ParseThrows_NoNesting(st, m) ==
  IF m.alt = 5 /\ st.inNot THEN ErrMultiple ELSE ""

\* the loop body without the check of a comma inside :not(
ParseThrows_NoMultiple(st, m) ==
  IF m.alt = 1 /\ st.inNot THEN ErrNesting ELSE ""

\* the error the loop body throws on match m, "" when it does not throw
ParseThrows(st, m) ==
  IF m.alt = 1 /\ st.inNot THEN ErrNesting
  ELSE IF m.alt = 5 /\ st.inNot THEN ErrMultiple
  ELSE ""

\* the while loop of CssSelector.parse from lastIndex li; the outcome carries
\* the lastIndex the shared regexp is left with
RECURSIVE ParseLoop(_, _, _)
ParseLoop(s, li, st) ==
  LET m == Exec(s, li)
  IN IF m.alt = 0
     THEN [ok |-> TRUE, error |-> "", selectors |-> Append(st.results, st.cssSelector),
           lastIndex |-> 0]
     ELSE IF ParseThrows(st, m) # ""
     THEN [ok |-> FALSE, error |-> ParseThrows(st, m), selectors |-> <<>>,
           lastIndex |-> m.next - 1]
     ELSE ParseLoop(s, m.next - 1, ParseToken(st, m))

\* parse that does not push the last selector when nothing was set on it
parse_DropEmptyLast(s) ==
  LET r == ParseLoop(s, 0, ParseStart)
  IN IF r.ok /\ r.selectors[Len(r.selectors)] = NewCssSelector
     THEN [r EXCEPT !.selectors = SubSeq(r.selectors, 1, Len(r.selectors) - 1)]
     ELSE r

\* CssSelector.parse(selector)
parse(s) == ParseLoop(s, 0, ParseStart)

\* toString that prints every attribute as [name], without its value
RECURSIVE toString_DropValue(_)
toString_DropValue(sel) ==
  LET classes == Flatten([i \in 1..Len(sel.classNames) |-> <<".">> \o sel.classNames[i]])
      attrs == Flatten([i \in 1..(Len(sel.attrs) \div 2) |->
                          <<"[">> \o sel.attrs[2 * i - 1] \o <<"]">>])
      nots == Flatten([i \in 1..Len(sel.notSelectors) |->
                         <<":", "n", "o", "t", "(">> \o toString_DropValue(sel.notSelectors[i])
                           \o <<")">>])
  IN sel.element \o classes \o attrs \o nots

\* CssSelector.toString
RECURSIVE toString(_)
toString(sel) ==
  LET classes == Flatten([i \in 1..Len(sel.classNames) |-> <<".">> \o sel.classNames[i]])
      attr(i) == LET name == sel.attrs[2 * i - 1]
                     value == sel.attrs[2 * i]
                 IN <<"[">> \o name \o (IF value # <<>> THEN <<"=">> \o value ELSE <<>>) \o <<"]">>
      attrs == Flatten([i \in 1..(Len(sel.attrs) \div 2) |-> attr(i)])
      nots == Flatten([i \in 1..Len(sel.notSelectors) |->
                         <<":", "n", "o", "t", "(">> \o toString(sel.notSelectors[i]) \o <<")">>])
  IN sel.element \o classes \o attrs \o nots

\* selectors.map(s => s.toString()).join(',')
RECURSIVE JoinComma(_)
JoinComma(ss) ==
  IF ss = <<>> THEN <<>>
  ELSE IF Len(ss) = 1 THEN ss[1]
  ELSE ss[1] \o <<",">> \o JoinComma(Tail(ss))

serialize(selectors) == JoinComma([i \in 1..Len(selectors) |-> toString(selectors[i])])

(***************************************************************************)
(* CssSelector.matches.  An element record has tagName (<<>> = undefined), *)
(* classList and attributes, a list of [name, value].                      *)
(***************************************************************************)
\* new Set(element.classList.map(c => c.toLowerCase()))
ElementClassSet(element) ==
  {toLowerCase(element.classList[i]) : i \in 1..Len(element.classList)}

\* new Map(element.attributes.map(a => [lower(a.name), lower(a.value)])):
\* a later entry of the same key replaces an earlier one
ElementAttrMap(element) ==
  LET attributes == element.attributes
      keys == {toLowerCase(attributes[i].name) : i \in 1..Len(attributes)}
      last(k) == CHOOSE i \in 1..Len(attributes) :
                   /\ toLowerCase(attributes[i].name) = k
                   /\ \A j \in (i + 1)..Len(attributes) : toLowerCase(attributes[j].name) # k
  IN [k \in keys |-> toLowerCase(attributes[last(k)].value)]

\* matches without the check of the :not selectors
matches_IgnoreNot(sel, element) ==
  IF /\ sel.element # <<>>
     /\ (element.tagName = <<>> \/ toLowerCase(sel.element) # toLowerCase(element.tagName))
  THEN FALSE
  ELSE IF /\ Len(sel.classNames) > 0
          /\ ~ \A i \in 1..Len(sel.classNames) : sel.classNames[i] \in ElementClassSet(element)
  THEN FALSE
  ELSE IF /\ Len(sel.attrs) > 0
          /\ \E i \in 1..(Len(sel.attrs) \div 2) :
               LET name == toLowerCase(sel.attrs[2 * i - 1])
                   value == sel.attrs[2 * i]
                   elementAttrs == ElementAttrMap(element)
               IN \/ name \notin DOMAIN elementAttrs
                  \/ (value # <<>> /\ elementAttrs[name] # value)
  THEN FALSE
  ELSE TRUE

RECURSIVE matches(_, _)
matches(sel, element) ==
  IF /\ sel.element # <<>>
     /\ (element.tagName = <<>> \/ toLowerCase(sel.element) # toLowerCase(element.tagName))
  THEN FALSE
  ELSE IF /\ Len(sel.classNames) > 0
          /\ ~ \A i \in 1..Len(sel.classNames) : sel.classNames[i] \in ElementClassSet(element)
  THEN FALSE
  ELSE IF /\ Len(sel.attrs) > 0
          /\ \E i \in 1..(Len(sel.attrs) \div 2) :
               LET name == toLowerCase(sel.attrs[2 * i - 1])
                   value == sel.attrs[2 * i]
                   elementAttrs == ElementAttrMap(element)
               IN \/ name \notin DOMAIN elementAttrs
                  \/ (value # <<>> /\ elementAttrs[name] # value)
  THEN FALSE
  ELSE IF /\ Len(sel.notSelectors) > 0
          /\ \E i \in 1..Len(sel.notSelectors) : matches(sel.notSelectors[i], element)
  THEN FALSE
  ELSE TRUE

(***************************************************************************)
(* Inputs of the selector engine                                           *)
(***************************************************************************)
\* fragments selector strings are built from: the tokens of the grammar and
\* the single characters that make up malformed input
SelFrags ==
  { <<":", "n", "o", "t", "(">>, <<")">>, <<",">>, <<" ">>,
    <<"a">>, <<"B">>, <<".">>, <<"#">>,
    <<"[", "a">>, <<"=">>, <<DQ>>, <<"]">>,
    <<"[", "A", "=", "B", "]">>, <<"[", "b", "=", DQ, "a", " ", "B", DQ, "]">> }

SeqsUpTo(S, n) == UNION {[1..k -> S] : k \in 0..n}

SelectorStrings == {Flatten(fs) : fs \in SeqsUpTo(SelFrags, MaxFrags)}

\* outcome of a parse call that has not happened
NoOutcome == [ok |-> FALSE, error |-> "none", selectors |-> <<>>]

Outcome(r) == [ok |-> r.ok, error |-> r.error, selectors |-> r.selectors]

(***************************************************************************)
(* State                                                                   *)
(***************************************************************************)
VARIABLES
  pc,         \* position of the caller's script
  selector,   \* the selector string handed to CssSelector.parse
  lastIndex,  \* SELECTOR_REGEXP.lastIndex, shared by all parse calls
  parsed,     \* outcome of CssSelector.parse(selector)
  text,       \* parsed selectors serialised with toString, joined by ","
  reparsed,   \* outcome of CssSelector.parse(text)
  element,    \* the element record handed to matches
  matched,    \* matched[i] = parsed.selectors[i].matches(element)
  nodes,      \* the node tree the template parser gives for the Template's content
  query,      \* the Template query being executed
  stack,      \* traverseNodes: the work list
  visited,    \* the nodes the visitor was invoked on, in order of invocation
  result,     \* the list the query collects and returns
  thrown,     \* message of the error the query threw, "" when none
  expr,       \* the value or handler handed to an analyze method
  record,     \* the record the analyze method returned
  diagnostics,    \* the errors the template parser reports for the Template's content
  parsedTemplate, \* Template.parsedTemplate: null, or the cached outcome of the parser
  errors,         \* Template.errors
  parserCalls,    \* how often the template parser was invoked
  callsLeft,      \* how many more methods the caller invokes on the Template
  tsProject,      \* the source files of the ts-morph project, by file path
  componentFiles, \* Project.componentFiles
  outcome         \* what the last Project call returned or threw

selectorVars == <<selector, parsed, text, reparsed, element, matched>>

templateVars == <<nodes, query, stack, visited, result, thrown>>

analysisVars == <<expr, record>>

cacheVars == <<diagnostics, parsedTemplate, errors, parserCalls, callsLeft>>

projectVars == <<tsProject, componentFiles, outcome>>

vars == <<pc, lastIndex, selectorVars, templateVars, analysisVars, cacheVars, projectVars>>

NoElement == [tagName |-> <<>>, classList |-> <<>>, attributes |-> <<>>]

NoQuery == [op |-> "none", arg |-> <<>>]

\* no expression is analysed
NoAST == [type |-> "none", name |-> <<>>, receiver |-> <<>>, args |-> <<>>]

NoValue == [isASTWithSource |-> FALSE, source |-> <<>>, location |-> <<>>, ast |-> NoAST]

NoRecord == [type |-> "none"]

InitNoAnalysis ==
  /\ expr = NoValue
  /\ record = NoRecord

\* private parsedTemplate: ParsedTemplate | null = null
NoParsedTemplate == [isNull |-> TRUE, nodes |-> <<>>, errors |-> <<>>]

\* a Template object after construction, with calls more methods to be invoked
InitCache(calls) ==
  /\ parsedTemplate = NoParsedTemplate
  /\ errors = <<>>
  /\ parserCalls = 0
  /\ callsLeft = calls

NoOutcomeYet == [call |-> "none"]

\* no Project is used
InitNoProject ==
  /\ tsProject = {}
  /\ componentFiles = <<>>
  /\ outcome = NoOutcomeYet

\* no Template is queried
InitNoTemplate ==
  /\ nodes = <<>>
  /\ query = NoQuery
  /\ stack = <<>>
  /\ visited = <<>>
  /\ result = <<>>
  /\ thrown = ""

InitCommon ==
  /\ InitNoTemplate
  /\ InitNoAnalysis
  /\ diagnostics = <<>>
  /\ InitCache(0)
  /\ InitNoProject
  /\ lastIndex = 0
  /\ parsed = NoOutcome
  /\ text = <<>>
  /\ reparsed = NoOutcome
  /\ element = NoElement
  /\ matched = <<>>

(***************************************************************************)
(* Selector engine: parse, toString, parse again                           *)
(***************************************************************************)
InitSelector ==
  /\ pc = "start"
  /\ selector \in SelectorStrings
  /\ InitCommon

\* CssSelector.parse(selector)
Parse ==
  /\ pc = "start"
  /\ LET r == ParseLoop(selector, 0, ParseStart)
     IN /\ parsed' = Outcome(r)
        /\ lastIndex' = r.lastIndex
        /\ pc' = IF r.ok THEN "parsed" ELSE "threw"
  /\ UNCHANGED <<selector, text, reparsed, element, matched, templateVars,
               analysisVars, cacheVars, projectVars>>

\* parsed.map(s => s.toString()).join(',')
Serialize ==
  /\ pc = "parsed"
  /\ text' = serialize(parsed.selectors)
  /\ pc' = "serialized"
  /\ UNCHANGED <<selector, lastIndex, parsed, reparsed, element, matched, templateVars,
               analysisVars, cacheVars, projectVars>>

\* CssSelector.parse(text)
Reparse ==
  /\ pc = "serialized"
  /\ LET r == ParseLoop(text, 0, ParseStart)
     IN /\ reparsed' = Outcome(r)
        /\ lastIndex' = r.lastIndex
        /\ pc' = "reparsed"
  /\ UNCHANGED <<selector, text, parsed, element, matched, templateVars,
               analysisVars, cacheVars, projectVars>>

NextSelector == Parse \/ Serialize \/ Reparse

SpecSelector == InitSelector /\ [][NextSelector]_vars

(***************************************************************************)
(* Selector engine: parse, then matches against an element record          *)
(***************************************************************************)
\* longest selector string handed to matches, counted in fragments of MatchFrags
MaxMatchFrags == 3

MatchFrags ==
  { <<"a">>, <<"B">>, <<".", "B">>, <<"[", "a", "]">>, <<"[", "A", "=", "B", "]">>,
    <<":", "n", "o", "t", "(">>, <<")">>, <<",">> }

MatchSelectorStrings == {Flatten(fs) : fs \in SeqsUpTo(MatchFrags, MaxMatchFrags)}

Attr(name, value) == [name |-> name, value |-> value]

ElementRecords ==
  [ tagName : {<<>>, <<"A">>, <<"b">>},
    classList : {<<>>, << <<"b">> >>, << <<"a">>, <<"B">> >>},
    attributes : { <<>>,
                   << Attr(<<"a">>, <<>>) >>,
                   << Attr(<<"A">>, <<"B">>) >>,
                   << Attr(<<"a">>, <<"b">>), Attr(<<"A">>, <<>>) >>,
                   << Attr(<<"a">>, <<>>), Attr(<<"A">>, <<"b">>) >> } ]

InitMatch ==
  /\ pc = "start"
  /\ selector \in MatchSelectorStrings
  /\ InitCommon

\* parsed.map(s => s.matches(e)) for an element record e
Match ==
  /\ pc = "parsed"
  /\ \E e \in ElementRecords :
       /\ element' = e
       /\ matched' = [i \in 1..Len(parsed.selectors) |-> matches(parsed.selectors[i], e)]
  /\ pc' = "matched"
  /\ UNCHANGED <<selector, lastIndex, parsed, text, reparsed, templateVars,
               analysisVars, cacheVars, projectVars>>

NextMatch == Parse \/ Match

SpecMatch == InitMatch /\ [][NextMatch]_vars

(***************************************************************************)
(* Calls of parse one after another on the shared regular expression       *)
(***************************************************************************)
\* longest selector string of a run of parse calls, counted in fragments of
\* ReuseFrags
MaxReuseFrags == 2

ReuseFrags == { <<":", "n", "o", "t", "(">>, <<",">>, <<"a">> }

ReuseStrings == {Flatten(fs) : fs \in SeqsUpTo(ReuseFrags, MaxReuseFrags)}

\* CssSelector.parse that scans on from where the last call left the regexp
ParseFrom_NoReset(li, s) == ParseLoop(s, li, ParseStart)

\* CssSelector.parse(s) called when SELECTOR_REGEXP.lastIndex is li: the
\* method sets lastIndex to 0 before its loop
ParseFrom(li, s) == ParseLoop(s, 0, ParseStart)

\* module load: no call yet
InitReuse ==
  /\ pc = "start"
  /\ selector = <<>>
  /\ InitCommon

\* the next CssSelector.parse(s) of the run, whether the last call returned
\* or threw; text keeps the string of the call before
ParseNext ==
  /\ pc \in {"start", "parsed", "threw"}
  /\ \E s \in ReuseStrings :
       \E r \in {ParseFrom(lastIndex, s)} :
         /\ text' = selector
         /\ selector' = s
         /\ parsed' = Outcome(r)
         /\ lastIndex' = r.lastIndex
         /\ pc' = IF r.ok THEN "parsed" ELSE "threw"
  /\ UNCHANGED <<reparsed, element, matched, templateVars, analysisVars, cacheVars,
                 projectVars>>

NextReuse == ParseNext

SpecReuse == InitReuse /\ [][NextReuse]_vars

(***************************************************************************)
(* The token stream of a selector string, and what each token stands for   *)
(***************************************************************************)
\* all matches SELECTOR_REGEXP finds in s from lastIndex li on
RECURSIVE TokensFrom(_, _)
TokensFrom(s, li) ==
  LET m == Exec(s, li)
  IN IF m.alt = 0 THEN <<>> ELSE <<m>> \o TokensFrom(s, m.next - 1)

Tokens(s) == TokensFrom(s, 0)

\* a ":not(" was read before token j and no ")" since
OpenBefore(T, j) ==
  \E i \in 1..(j - 1) : T[i].alt = 1 /\ \A k \in (i + 1)..(j - 1) : T[k].alt # 4

\* the first ":not(" or "," read inside an open group, 0 when there is none
FirstOffending(T) ==
  LET bad == {j \in 1..Len(T) : T[j].alt \in {1, 5} /\ OpenBefore(T, j)}
  IN IF bad = {} THEN 0 ELSE CHOOSE j \in bad : \A k \in bad : j <= k

\* the alternative (1-based) token j belongs to
SegmentOf(T, j) == 1 + Cardinality({i \in 1..(j - 1) : T[i].alt = 5})

CommaCount(T) == Cardinality({j \in 1..Len(T) : T[j].alt = 5})

Indices(n) == [i \in 1..n |-> i]

\* the text of alternative a: what lies between comma a-1 and comma a
SegmentText(s, T, a) ==
  LET IsComma(j) == T[j].alt = 5
      commas == SelectSeq(Indices(Len(T)), IsComma)
      from == IF a = 1 THEN 1 ELSE T[commas[a - 1]].next
      to == IF a = Len(commas) + 1 THEN Len(s) + 1 ELSE T[commas[a]].index
  IN Slice(s, from, to)

\* the selector a list of tag and attribute tokens describes: the last
\* unprefixed name is the element, ".x" tokens are the classes, "#x" and
\* "[name=value]" tokens the attributes; classes and values in lower case
SelectorOf(ts) ==
  LET IsElement(t) == t.alt = 2 /\ t.prefix = <<>>
      IsClass(t) == t.alt = 2 /\ t.prefix = <<".">>
      IsAttr(t) == t.alt = 3 \/ (t.alt = 2 /\ t.prefix = <<"#">>)
      elements == SelectSeq(ts, IsElement)
      classes == SelectSeq(ts, IsClass)
      attrs == SelectSeq(ts, IsAttr)
      pair(t) == IF t.alt = 3 THEN <<t.attribute, toLowerCase(t.value)>>
                 ELSE << <<"i", "d">>, toLowerCase(Tail(t.tag)) >>
  IN [element |-> IF elements = <<>> THEN <<>> ELSE elements[Len(elements)].tag,
      classNames |-> [i \in 1..Len(classes) |-> toLowerCase(Tail(classes[i].tag))],
      attrs |-> Flatten([i \in 1..Len(attrs) |-> pair(attrs[i])]),
      notSelectors |-> <<>>]

\* the selectors an accepted token stream describes
ExpectedSelectors(T) ==
  LET idx == Indices(Len(T))
      Pick(Test(_)) == LET js == SelectSeq(idx, Test) IN [i \in 1..Len(js) |-> T[js[i]]]
      alternative(a) ==
        LET Outside(j) == SegmentOf(T, j) = a /\ T[j].alt \in {2, 3} /\ ~ OpenBefore(T, j)
            IsOpen(j) == SegmentOf(T, j) = a /\ T[j].alt = 1
            opens == SelectSeq(idx, IsOpen)
            group(n) ==
              LET Inside(j) == /\ SegmentOf(T, j) = a /\ T[j].alt \in {2, 3}
                               /\ OpenBefore(T, j)
                               /\ j > opens[n]
                               /\ (n < Len(opens) => j < opens[n + 1])
              IN SelectorOf(Pick(Inside))
        IN [SelectorOf(Pick(Outside)) EXCEPT
              !.notSelectors = [n \in 1..Len(opens) |-> group(n)]]
  IN [a \in 1..(CommaCount(T) + 1) |-> alternative(a)]

IsLowerCase(str) == toLowerCase(str) = str

(***************************************************************************)
(* Properties of the selector engine                                       *)
(***************************************************************************)
\* C2: parse fails with the nesting error exactly when the first token that
\* is read inside an open :not( group is another ":not("; in an accepted
\* string every ":not(" adds one entry to the notSelectors of the
\* alternative it is read in, so a ":not(" after a closed group adds a second
C2_NestingRejected ==
  pc \in {"parsed", "threw"} =>
    LET T == Tokens(selector)
        f == FirstOffending(T)
    IN /\ (f # 0 /\ T[f].alt = 1) <=> (~ parsed.ok /\ parsed.error = ErrNesting)
       /\ parsed.ok =>
            \A a \in 1..Len(parsed.selectors) :
              Len(parsed.selectors[a].notSelectors) =
                Cardinality({j \in 1..Len(T) : T[j].alt = 1 /\ SegmentOf(T, j) = a})

C2_Witness ==
  /\ pc = "threw"
  /\ parsed.error = ErrNesting
  /\ Cardinality({j \in 1..Len(Tokens(selector)) : Tokens(selector)[j].alt = 1}) >= 2

\* C3: parse fails with the multiple-selectors error exactly when the first
\* token read inside an open :not( group is a comma; an accepted string with
\* k commas parses to k+1 selectors, the a-th being the parse of the text of
\* the a-th alternative
C3_CommaSplits ==
  pc \in {"parsed", "threw"} =>
    LET T == Tokens(selector)
        f == FirstOffending(T)
    IN /\ (f # 0 /\ T[f].alt = 5) <=> (~ parsed.ok /\ parsed.error = ErrMultiple)
       /\ parsed.ok =>
            /\ Len(parsed.selectors) = CommaCount(T) + 1
            /\ \A a \in 1..Len(parsed.selectors) :
                 parsed.selectors[a] = parse(SegmentText(selector, T, a)).selectors[1]

C3_Witness ==
  /\ pc = "threw"
  /\ parsed.error = ErrMultiple
  /\ \E j \in 1..Len(Tokens(selector)) : Tokens(selector)[j].alt = 5

\* C4: serialising the selectors of an accepted string with toString, joined
\* by commas, and parsing the text again gives the selectors of the first parse
C4_RoundTrip ==
  pc = "reparsed" => reparsed.ok /\ reparsed.selectors = parsed.selectors

C4_Witness ==
  /\ pc = "reparsed"
  /\ text # selector
  /\ \E i \in 1..Len(parsed.selectors) :
       /\ parsed.selectors[i].notSelectors # <<>>
       /\ parsed.selectors[i].notSelectors[1].attrs # <<>>
       /\ parsed.selectors[i].notSelectors[1].attrs[2] # <<>>

AllSelectors(selectors) ==
  {selectors[i] : i \in 1..Len(selectors)}
    \cup UNION {{selectors[i].notSelectors[n] : n \in 1..Len(selectors[i].notSelectors)} :
                  i \in 1..Len(selectors)}

ClassesAndValuesLower(sel) ==
  /\ \A i \in 1..Len(sel.classNames) : IsLowerCase(sel.classNames[i])
  /\ \A i \in 1..(Len(sel.attrs) \div 2) : IsLowerCase(sel.attrs[2 * i])

AttrNamesLower(sel) ==
  \A i \in 1..(Len(sel.attrs) \div 2) : IsLowerCase(sel.attrs[2 * i - 1])

C7_TokensClassified ==
  pc = "parsed" => parsed.selectors = ExpectedSelectors(Tokens(selector))

C7_Witness ==
  /\ pc = "parsed"
  /\ LET T == Tokens(selector)
     IN \E i, j, k \in 1..Len(T) :
          /\ i < j /\ j < k
          /\ T[i].alt = 1 /\ T[j].alt = 4 /\ T[k].alt \in {2, 3}
  /\ parsed.selectors[1].notSelectors # <<>>

(***************************************************************************)
(* Properties of matches                                                   *)
(***************************************************************************)
\* the four conditions of a match; the value an element has for an
\* attribute name is that of its last attribute of that name, ignoring case
RECURSIVE MatchConditions(_, _)
MatchConditions(sel, e) ==
  LET Named(n) == {k \in 1..Len(e.attributes) :
                     toLowerCase(e.attributes[k].name) = toLowerCase(n)}
      ValueOf(n) == LET k == CHOOSE k \in Named(n) : \A l \in Named(n) : l <= k
                    IN e.attributes[k].value
  IN /\ sel.element = <<>> \/ toLowerCase(sel.element) = toLowerCase(e.tagName)
     /\ \A i \in 1..Len(sel.classNames) :
          \E k \in 1..Len(e.classList) :
            toLowerCase(e.classList[k]) = toLowerCase(sel.classNames[i])
     /\ \A i \in 1..(Len(sel.attrs) \div 2) :
          /\ Named(sel.attrs[2 * i - 1]) # {}
          /\ sel.attrs[2 * i] # <<>> =>
               toLowerCase(ValueOf(sel.attrs[2 * i - 1])) = toLowerCase(sel.attrs[2 * i])
     /\ \A n \in 1..Len(sel.notSelectors) : ~ MatchConditions(sel.notSelectors[n], e)

\* C5: matches is true exactly when the element, class, attribute and :not
\* conditions all hold; when a :not selector matches the element the result
\* is false
C5_MatchesIffConditions ==
  pc = "matched" =>
    \A i \in 1..Len(parsed.selectors) :
      /\ matched[i] <=> MatchConditions(parsed.selectors[i], element)
      /\ (\E n \in 1..Len(parsed.selectors[i].notSelectors) :
            MatchConditions(parsed.selectors[i].notSelectors[n], element)) => ~ matched[i]

C5_Witness ==
  /\ pc = "matched"
  /\ \E i \in 1..Len(parsed.selectors) :
       LET sel == parsed.selectors[i]
       IN /\ sel.element # <<>>
          /\ sel.notSelectors # <<>>
          /\ sel.notSelectors[1] # NewCssSelector
          /\ MatchConditions([sel EXCEPT !.notSelectors = <<>>], element)
          /\ ~ matched[i]

(***************************************************************************)
(* Template node trees.  A tree is the sequence of its nodes in document   *)
(* order; a node names its parent (0 for a root node) and the child group  *)
(* of the parent it lies in: children of an Element, Template or           *)
(* DeferredBlock (group 1), branches[b].children of an IfBlock (group b),  *)
(* children (group 1) and empty.children (group 2) of a ForLoopBlock,      *)
(* cases[c].children of a SwitchBlock (group c).                           *)
(***************************************************************************)
\* longest template, counted in nodes
MaxNodes == 3

\* constructor.name of the node classes of @angular/compiler
ElementClass == <<"E", "l", "e", "m", "e", "n", "t", "$", "1">>
TextClass == <<"T", "e", "x", "t", "$", "3">>
BoundTextClass == <<"B", "o", "u", "n", "d", "T", "e", "x", "t">>
TemplateClass == <<"T", "e", "m", "p", "l", "a", "t", "e">>
IfBlockClass == <<"I", "f", "B", "l", "o", "c", "k">>
ForLoopBlockClass == <<"F", "o", "r", "L", "o", "o", "p", "B", "l", "o", "c", "k">>
SwitchBlockClass == <<"S", "w", "i", "t", "c", "h", "B", "l", "o", "c", "k">>
DeferredBlockClass == <<"D", "e", "f", "e", "r", "r", "e", "d", "B", "l", "o", "c", "k">>
SwitchBlockCaseClass ==
  <<"S", "w", "i", "t", "c", "h", "B", "l", "o", "c", "k", "C", "a", "s", "e">>

(***************************************************************************)
(* Expression trees of @angular/compiler, as far as the analysis reads     *)
(* them: the class of a node, its name, its receiver (none or one) and its *)
(* arguments (the key of a KeyedRead counts as an argument)                *)
(***************************************************************************)
AST(type, name, receiver, args) ==
  [type |-> type, name |-> name, receiver |-> receiver, args |-> args]

ImplicitReceiver == AST("ImplicitReceiver", <<>>, <<>>, <<>>)

LiteralPrimitive == AST("LiteralPrimitive", <<>>, <<>>, <<>>)

PropertyRead(receiver, name) == AST("PropertyRead", name, <<receiver>>, <<>>)

Call(receiver, args) == AST("Call", <<>>, <<receiver>>, args)

KeyedRead(receiver, key) == AST("KeyedRead", <<>>, <<receiver>>, <<key>>)

\* a name read from the component: name, with the implicit receiver
Read(name) == PropertyRead(ImplicitReceiver, name)

\* the location every expression of the template is given
Location == <<"t", "@", "0">>

ASTWithSource(source, ast) ==
  [isASTWithSource |-> TRUE, source |-> source, location |-> Location, ast |-> ast]

\* AST.toString of a node that does not override it
toStringAST(ast) == <<"A", "S", "T">>

\* ASTWithSource.toString, and toString of a value that is no ASTWithSource
toStringValue(value) ==
  IF value.isASTWithSource
  THEN value.source \o <<" ", "i", "n", " ">> \o value.location
  ELSE toStringAST(value.ast)

NewNode(className, groups) ==
  [className |-> className, name |-> <<>>, attributes |-> <<>>, inputs |-> <<>>,
   outputs |-> <<>>, groups |-> groups, parent |-> 0, slot |-> 1,
   expression |-> NoValue, value |-> NoValue]

Input(name, source) ==
  [name |-> name, value |-> ASTWithSource(source, Read(source))]

Output(name) ==
  [name |-> name,
   handler |-> ASTWithSource(<<"b", "(", ")">>, Call(Read(<<"b">>), <<>>))]

\* <div class="test" [title]="a" (click)="b()">
DivTest ==
  [NewNode(ElementClass, 1) EXCEPT
     !.name = <<"d", "i", "v">>,
     !.attributes = << Attr(<<"c", "l", "a", "s", "s">>, <<"t", "e", "s", "t">>) >>,
     !.inputs = << Input(<<"t", "i", "t", "l", "e">>, <<"a">>) >>,
     !.outputs = << Output(<<"c", "l", "i", "c", "k">>) >>]

\* <span>
Span == [NewNode(ElementClass, 1) EXCEPT !.name = <<"s", "p", "a", "n">>]

\* <p class="a  Test" title="T" [title]="b" [title]="c" (click)="d()">
Para ==
  [NewNode(ElementClass, 1) EXCEPT
     !.name = <<"p">>,
     !.attributes = << Attr(<<"c", "l", "a", "s", "s">>, <<"a", " ", " ", "T", "e", "s", "t">>),
                       Attr(<<"t", "i", "t", "l", "e">>, <<"T">>) >>,
     !.inputs = << Input(<<"t", "i", "t", "l", "e">>, <<"b">>),
                   Input(<<"t", "i", "t", "l", "e">>, <<"c">>) >>,
     !.outputs = << Output(<<"c", "l", "i", "c", "k">>) >>]

TextNode == NewNode(TextClass, 0)
BoundTextNode == NewNode(BoundTextClass, 0)
TemplateNode == NewNode(TemplateClass, 1)
IfBlockNode == NewNode(IfBlockClass, 2)
ForLoopBlockNode == NewNode(ForLoopBlockClass, 2)
SwitchBlockNode == NewNode(SwitchBlockClass, 2)
DeferredBlockNode == NewNode(DeferredBlockClass, 1)

RECURSIVE AncestorsOrSelf(_, _)
AncestorsOrSelf(t, i) == IF i = 0 THEN {} ELSE {i} \cup AncestorsOrSelf(t, t[i].parent)

\* the shape of a tree: for each node in document order its parent and the
\* child group it lies in.  The next node can lie at the root, or in a group
\* of the last node or of one of its ancestors, not before a group that
\* already has a node
Places(sh) ==
  LET open == IF sh = <<>> THEN {} ELSE AncestorsOrSelf(sh, Len(sh))
      used(p) == {sh[i].slot : i \in {j \in 1..Len(sh) : sh[j].parent = p}}
  IN {<<0, 1>>} \cup
     {ps \in open \X (1..2) : \A u \in used(ps[1]) : u <= ps[2]}

RECURSIVE ShapesOfSize(_)
ShapesOfSize(n) ==
  IF n = 0 THEN {<<>>}
  ELSE UNION {{Append(sh, [parent |-> ps[1], slot |-> ps[2]]) : ps \in Places(sh)} :
                sh \in ShapesOfSize(n - 1)}

\* every node lies in a child group its parent has
Fits(sh, ks) ==
  \A i \in 1..Len(sh) : sh[i].parent # 0 => sh[i].slot <= ks[sh[i].parent].groups

TreeOf(sh, ks) ==
  [i \in 1..Len(sh) |-> [ks[i] EXCEPT !.parent = sh[i].parent, !.slot = sh[i].slot]]

\* node.children, branch.children, case_.children, empty.children: the nodes
\* of group g of node p, in document order
Children(t, p, g) ==
  LET InGroup(i) == t[i].parent = p /\ t[i].slot = g
  IN SelectSeq(Indices(Len(t)), InGroup)

\* parsedTemplate.nodes
Roots(t) == Children(t, 0, 1)

(***************************************************************************)
(* ast/types.ts: the type guards                                           *)
(***************************************************************************)
StartsWith(str, prefix) ==
  Len(str) >= Len(prefix) /\ SubSeq(str, 1, Len(prefix)) = prefix

checkNodeType(node, typeName) == StartsWith(node.className, typeName)

is_element(node) == checkNodeType(node, <<"E", "l", "e", "m", "e", "n", "t">>)
is_template(node) == checkNodeType(node, <<"T", "e", "m", "p", "l", "a", "t", "e">>)
is_boundText(node) == checkNodeType(node, <<"B", "o", "u", "n", "d", "T", "e", "x", "t">>)
is_ifBlock(node) == checkNodeType(node, <<"I", "f", "B", "l", "o", "c", "k">>)
is_forBlock(node) ==
  checkNodeType(node, <<"F", "o", "r", "L", "o", "o", "p", "B", "l", "o", "c", "k">>)
is_switchBlock(node) ==
  checkNodeType(node, <<"S", "w", "i", "t", "c", "h", "B", "l", "o", "c", "k">>)
is_propertyBinding(node) ==
  checkNodeType(node, <<"B", "o", "u", "n", "d", "A", "t", "t", "r", "i", "b", "u", "t", "e">>)
is_eventBinding(node) ==
  checkNodeType(node, <<"B", "o", "u", "n", "d", "E", "v", "e", "n", "t">>)

\* node instanceof class, for the classes of @angular/compiler, none of
\* which extends another
instanceof(node, class) == node.className = class

(***************************************************************************)
(* class Template: traverseNodes, matchesSelector and the find queries     *)
(***************************************************************************)
\* what one iteration of traverseNodes pushes for the first branch of an
\* IfBlock and the first case of a SwitchBlock only
Pushed_FirstGroupOnly(t, current) ==
  IF is_element(t[current]) THEN Children(t, current, 1)
  ELSE IF is_template(t[current]) THEN Children(t, current, 1)
  ELSE IF is_ifBlock(t[current]) THEN Children(t, current, 1)
  ELSE IF is_forBlock(t[current]) THEN Children(t, current, 1)
  ELSE IF is_switchBlock(t[current]) THEN Children(t, current, 1)
  ELSE <<>>

\* what one iteration of traverseNodes pushes when the empty branch of a
\* ForLoopBlock is pushed after its body
Pushed_ForEmptyToo(t, current) ==
  IF is_element(t[current]) THEN Children(t, current, 1)
  ELSE IF is_template(t[current]) THEN Children(t, current, 1)
  ELSE IF is_ifBlock(t[current])
  THEN Flatten([b \in 1..t[current].groups |-> Children(t, current, b)])
  ELSE IF is_forBlock(t[current])
  THEN Children(t, current, 1) \o Children(t, current, 2)
  ELSE IF is_switchBlock(t[current])
  THEN Flatten([c \in 1..t[current].groups |-> Children(t, current, c)])
  ELSE <<>>

\* what one iteration of traverseNodes pushes on the stack after the visit
Pushed(t, current) ==
  IF is_element(t[current]) THEN Children(t, current, 1)
  ELSE IF is_template(t[current]) THEN Children(t, current, 1)
  ELSE IF is_ifBlock(t[current])
  THEN Flatten([b \in 1..t[current].groups |-> Children(t, current, b)])
  ELSE IF is_forBlock(t[current]) THEN Children(t, current, 1)
  ELSE IF is_switchBlock(t[current])
  THEN Flatten([c \in 1..t[current].groups |-> Children(t, current, c)])
  ELSE <<>>

\* value.split(/\s+/).filter(Boolean)
RECURSIVE SplitSpaces(_)
SplitSpaces(str) ==
  IF str = <<>> THEN <<>>
  ELSE IF str[1] \in SpaceChars THEN SplitSpaces(Tail(str))
  ELSE LET stop == CHOOSE j \in 2..(Len(str) + 1) :
                     /\ (j = Len(str) + 1 \/ str[j] \in SpaceChars)
                     /\ \A k \in 1..(j - 1) : str[k] \notin SpaceChars
       IN <<SubSeq(str, 1, stop - 1)>> \o SplitSpaces(SubSeq(str, stop, Len(str)))

ClassAttrName == <<"c", "l", "a", "s", "s">>

\* the elementInfo record matchesSelector builds
ElementInfo(node) ==
  LET IsClass(a) == a.name = ClassAttrName
      classAttrs == SelectSeq(node.attributes, IsClass)
  IN [tagName |-> node.name,
      classList |-> IF classAttrs = <<>> THEN <<>> ELSE SplitSpaces(classAttrs[1].value),
      attributes |->
        [i \in 1..Len(node.attributes) |->
           Attr(node.attributes[i].name, node.attributes[i].value)]
        \o [i \in 1..Len(node.inputs) |->
              Attr(node.inputs[i].name,
                   IF node.inputs[i].value.isASTWithSource
                   THEN node.inputs[i].value.source ELSE <<>>)]]

\* selectors.some(cssSelector => cssSelector.matches(elementInfo)), given the
\* outcome r of CssSelector.parse
SomeMatches(r, node) ==
  [threw |-> ~ r.ok, error |-> r.error, lastIndex |-> r.lastIndex,
   value |-> r.ok /\ \E i \in 1..Len(r.selectors) : matches(r.selectors[i], ElementInfo(node))]

\* the first comma-separated alternative only
FirstMatches(r, node) ==
  [threw |-> ~ r.ok, error |-> r.error, lastIndex |-> r.lastIndex,
   value |-> r.ok /\ matches(r.selectors[1], ElementInfo(node))]

\* matchesSelector that tries the first comma-separated alternative only
matchesSelector_FirstAlternative(node, sel) == FirstMatches(parse(sel), node)

\* Template.matchesSelector: the selector is parsed on every call
matchesSelector(node, sel) == SomeMatches(parse(sel), node)

(***************************************************************************)
(* class Template: the analysis of expressions                             *)
(***************************************************************************)
\* a walk that recurses through every node kind: arguments, then receiver
RECURSIVE traverseAST_EveryKind(_)
traverseAST_EveryKind(ast) ==
  <<ast>> \o Flatten([i \in 1..Len(ast.args) |-> traverseAST_EveryKind(ast.args[i])])
          \o Flatten([i \in 1..Len(ast.receiver) |-> traverseAST_EveryKind(ast.receiver[i])])

\* Template.traverseAST: the nodes the visitor is invoked on, in order
RECURSIVE traverseAST(_)
traverseAST(ast) ==
  <<ast>> \o
    (IF ast.type = "Call"
     THEN Flatten([i \in 1..Len(ast.args) |-> traverseAST(ast.args[i])])
            \o traverseAST(ast.receiver[1])
     ELSE IF ast.type = "PropertyRead" /\ ast.receiver # <<>>
     THEN traverseAST(ast.receiver[1])
     ELSE <<>>)

\* a visitor that pushes the name of every PropertyRead
PushedNames_AnyRead(seen) ==
  LET Wanted(k) == seen[k].type = "PropertyRead"
      ks == SelectSeq(Indices(Len(seen)), Wanted)
  IN [n \in 1..Len(ks) |-> seen[ks[n]].name]

\* the visitor of the analyze methods: referencedProperties.push(node.name) for
\* a PropertyRead whose receiver is an ImplicitReceiver
PushedNames(seen) ==
  LET Wanted(k) ==
        /\ seen[k].type = "PropertyRead"
        /\ seen[k].receiver # <<>>
        /\ seen[k].receiver[1].type = "ImplicitReceiver"
      ks == SelectSeq(Indices(Len(seen)), Wanted)
  IN [n \in 1..Len(ks) |-> seen[ks[n]].name]

referencedProperties(ast) == PushedNames(traverseAST(ast))

\* expr?.toString() || ''
ExpressionText(value) ==
  IF value.ast.type = "none" THEN <<>> ELSE toStringValue(value)

\* analyzeIfExpression, analyzeForExpression, analyzeSwitchExpression and
\* analyzeCaseExpression, which differ in the type they give only
analyzeExpression(type, value, span) ==
  [type |-> type,
   expression |-> ExpressionText(value),
   referencedProperties |->
     IF value.isASTWithSource THEN referencedProperties(value.ast) ELSE <<>>,
   sourceSpan |-> span]

\* Template.analyzeEventHandler; null is the record of type "null"
analyzeEventHandler(event, span) ==
  IF ~ event.handler.isASTWithSource THEN [type |-> "null"]
  ELSE LET expression == event.handler.ast
       IN [type |-> "EventHandler",
           name |-> IF expression.type = "Call"
                    THEN IF expression.receiver[1].type = "PropertyRead"
                         THEN expression.receiver[1].name ELSE <<>>
                    ELSE IF expression.type = "PropertyRead" THEN expression.name
                    ELSE <<>>,
           arguments |-> IF expression.type = "Call"
                         THEN [i \in 1..Len(expression.args) |->
                                 toStringAST(expression.args[i])]
                         ELSE <<>>,
           fullText |-> toStringValue(event.handler),
           sourceSpan |-> span]

\* Template.analyzePropertyBinding; null is the record of type "null"
analyzePropertyBinding(binding, span) ==
  IF ~ binding.value.isASTWithSource THEN [type |-> "null"]
  ELSE [type |-> "PropertyBinding",
        name |-> binding.name,
        value |-> toStringValue(binding.value),
        isLiteral |-> binding.value.ast.type = "LiteralPrimitive",
        referencedProperties |-> referencedProperties(binding.value.ast),
        sourceSpan |-> span]

\* an entry of a result list: a node, or binding number index of a node
Entry(id, index) == [node |-> id, index |-> index]

NoEffect(li) == [threw |-> FALSE, error |-> "", lastIndex |-> li, add |-> <<>>]

\* the visitor of findElements on an element, given the outcome m of
\* matchesSelector
ElementVisit(m, id) ==
  [threw |-> m.threw, error |-> m.error, lastIndex |-> m.lastIndex,
   add |-> IF m.value THEN <<Entry(id, 0)>> ELSE <<>>]

\* all the bindings, whatever the name
NamedBindings_AnyName(bindings, name) == Indices(Len(bindings))

\* node.inputs.filter(input => input.name === propertyName), and the same
\* for node.outputs: the numbers of the bindings kept, in their order
NamedBindings(bindings, name) ==
  LET Named(k) == bindings[k].name = name
  IN SelectSeq(Indices(Len(bindings)), Named)

\* bindings.push(...matches)
BindingEntries(id, ks) == [n \in 1..Len(ks) |-> Entry(id, ks[n])]

\* the visitor of each find query, called on node id with SELECTOR_REGEXP.lastIndex li
Visitor(t, q, id, li) ==
  CASE q.op = "findElements" ->
         IF is_element(t[id])
         THEN ElementVisit(matchesSelector(t[id], q.arg), id)
         ELSE NoEffect(li)
    [] q.op = "findPropertyBindings" ->
         IF is_element(t[id])
         THEN [NoEffect(li) EXCEPT !.add = BindingEntries(id, NamedBindings(t[id].inputs, q.arg))]
         ELSE NoEffect(li)
    [] q.op = "findEventBindings" ->
         IF is_element(t[id])
         THEN [NoEffect(li) EXCEPT !.add = BindingEntries(id, NamedBindings(t[id].outputs, q.arg))]
         ELSE NoEffect(li)
    [] q.op = "findInterpolations" ->
         IF is_boundText(t[id])
         THEN [NoEffect(li) EXCEPT !.add = <<Entry(id, 0)>>]
         ELSE NoEffect(li)
    [] q.op = "getControlFlowExpressions" ->
         [NoEffect(li) EXCEPT !.add =
            IF instanceof(t[id], IfBlockClass)
            THEN <<analyzeExpression("if", t[id].expression, id)>>
            ELSE IF instanceof(t[id], ForLoopBlockClass)
            THEN <<analyzeExpression("for", t[id].expression, id)>>
            ELSE IF instanceof(t[id], SwitchBlockClass)
            THEN <<analyzeExpression("switch", t[id].expression, id)>>
            ELSE IF instanceof(t[id], SwitchBlockCaseClass)
            THEN <<analyzeExpression("case", t[id].expression, id)>>
            ELSE <<>>]
    [] q.op = "getEventHandlers" ->
         IF is_element(t[id])
         THEN LET NotNull(r) == r.type # "null"
              IN [NoEffect(li) EXCEPT !.add =
                    SelectSeq([k \in 1..Len(t[id].outputs) |->
                                 analyzeEventHandler(t[id].outputs[k], Entry(id, k))],
                              NotNull)]
         ELSE NoEffect(li)
    [] q.op = "getPropertyBindings" ->
         IF is_element(t[id])
         THEN LET NotNull(r) == r.type # "null"
              IN [NoEffect(li) EXCEPT !.add =
                    SelectSeq([k \in 1..Len(t[id].inputs) |->
                                 analyzePropertyBinding(t[id].inputs[k], Entry(id, k))],
                              NotNull)]
         ELSE NoEffect(li)
    [] q.op = "getBindingDependencies" ->
         [NoEffect(li) EXCEPT !.add =
            (IF is_propertyBinding(t[id]) THEN <<t[id].name>> ELSE <<>>)
            \o (IF is_eventBinding(t[id]) THEN <<toStringValue(t[id].handler)>> ELSE <<>>)
            \o (IF is_boundText(t[id]) THEN <<toStringValue(t[id].value)>> ELSE <<>>)]

\* the outcome of the template parser for the Template's content: the node
\* tree and the errors, null when there are none
parseTemplate(t, diags) == [isNull |-> FALSE, nodes |-> t, errors |-> diags]

BindingError(error) == [message |-> error.msg, span |-> error.span, level |-> "error"]

\* a parse that invokes the parser on every call
TemplateParse_NoCache ==
  /\ parsedTemplate' = parseTemplate(nodes, diagnostics)
  /\ errors' = IF diagnostics = <<>> THEN errors
               ELSE [i \in 1..Len(diagnostics) |-> BindingError(diagnostics[i])]
  /\ parserCalls' = parserCalls + 1

\* Template.parse(): the cache after the call
TemplateParse ==
  IF parsedTemplate.isNull
  THEN /\ parsedTemplate' = parseTemplate(nodes, diagnostics)
       /\ errors' = IF diagnostics = <<>> THEN errors
                    ELSE [i \in 1..Len(diagnostics) |-> BindingError(diagnostics[i])]
       /\ parserCalls' = parserCalls + 1
  ELSE UNCHANGED <<parsedTemplate, errors, parserCalls>>

\* the caller is between two calls and has a call left to make
CallerReady ==
  /\ pc \in {"idle", "returned", "threw"}
  /\ callsLeft > 0

\* what the visitor's pushes make of the list: getBindingDependencies collects
\* into a Set, which keeps the first occurrence of a value only
RECURSIVE Collect(_, _, _)
Collect(op, list, add) ==
  IF add = <<>> THEN list
  ELSE IF op = "getBindingDependencies" /\ \E n \in 1..Len(list) : list[n] = Head(add)
  THEN Collect(op, list, Tail(add))
  ELSE Collect(op, Append(list, Head(add)), Tail(add))

\* a query method up to its call of traverseNodes: nodes = this.parse(), an
\* empty result list, stack = [...nodes]
Begin(op, arg) ==
  /\ CallerReady
  /\ callsLeft' = callsLeft - 1
  /\ TemplateParse
  /\ query' = [op |-> op, arg |-> arg]
  /\ stack' = Roots(parsedTemplate'.nodes)
  /\ visited' = <<>>
  /\ result' = <<>>
  /\ thrown' = ""
  /\ pc' = "walking"
  /\ UNCHANGED <<nodes, diagnostics, lastIndex, selectorVars, analysisVars, projectVars>>

FindSelectors ==
  { <<"d", "i", "v", ".", "t", "e", "s", "t">>,
    <<".", "t", "e", "s", "t", ",", "s", "p", "a", "n">>,
    <<":", "n", "o", "t", "(", ".", "t", "e", "s", "t", ")">>,
    <<"[", "t", "i", "t", "l", "e", "]">>,
    <<":", "n", "o", "t", "(", ":", "n", "o", "t", "(", "a", ")", ")">>,
    <<":", "n", "o", "t", "(", "a", ",", "b", ")">> }

BindingNames == { <<"t", "i", "t", "l", "e">>, <<"c", "l", "i", "c", "k">> }

\* Template.findElements(selector)
FindElements == \E sel \in FindSelectors : Begin("findElements", sel)

\* Template.findPropertyBindings(propertyName)
FindPropertyBindings == \E name \in BindingNames : Begin("findPropertyBindings", name)

\* Template.findEventBindings(eventName)
FindEventBindings == \E name \in BindingNames : Begin("findEventBindings", name)

\* Template.findInterpolations()
FindInterpolations == Begin("findInterpolations", <<>>)

\* Template.getControlFlowExpressions()
GetControlFlowExpressions == Begin("getControlFlowExpressions", <<>>)

\* Template.getEventHandlers()
GetEventHandlers == Begin("getEventHandlers", <<>>)

\* Template.getPropertyBindings()
GetPropertyBindings == Begin("getPropertyBindings", <<>>)

\* Template.getBindingDependencies()
GetBindingDependencies == Begin("getBindingDependencies", <<>>)

\* one iteration of the while loop of traverseNodes: pop, visit, push
Visit ==
  /\ pc = "walking"
  /\ stack # <<>>
  /\ \E v \in {Visitor(nodes, query, stack[Len(stack)], lastIndex)} :
     LET current == stack[Len(stack)]
         rest == SubSeq(stack, 1, Len(stack) - 1)
     IN /\ visited' = Append(visited, current)
        /\ lastIndex' = v.lastIndex
        /\ IF v.threw
           THEN /\ pc' = "threw"
                /\ thrown' = v.error
                /\ stack' = rest
                /\ UNCHANGED result
           ELSE /\ pc' = "walking"
                /\ result' = Collect(query.op, result, v.add)
                /\ stack' = rest \o Pushed(nodes, current)
                /\ UNCHANGED thrown
  /\ UNCHANGED <<nodes, query, selectorVars, analysisVars, cacheVars, projectVars>>

\* the loop of traverseNodes ends and the query returns its list
Return ==
  /\ pc = "walking"
  /\ stack = <<>>
  /\ pc' = "returned"
  /\ UNCHANGED <<lastIndex, selectorVars, templateVars, analysisVars, cacheVars,
               projectVars>>

InitTemplate(kinds) ==
  /\ pc = "idle"
  /\ \E n \in 0..MaxNodes :
       \E sh \in ShapesOfSize(n) :
         \E ks \in [1..n -> kinds] :
           Fits(sh, ks) /\ nodes = TreeOf(sh, ks)
  /\ query = NoQuery
  /\ stack = <<>>
  /\ visited = <<>>
  /\ result = <<>>
  /\ thrown = ""
  /\ lastIndex = 0
  /\ selector = <<>>
  /\ parsed = NoOutcome
  /\ text = <<>>
  /\ reparsed = NoOutcome
  /\ element = NoElement
  /\ matched = <<>>
  /\ InitNoAnalysis
  /\ InitNoProject

\* the traversal over trees of all node kinds
WalkKinds ==
  { DivTest, TextNode, BoundTextNode, TemplateNode, IfBlockNode, ForLoopBlockNode,
    SwitchBlockNode, DeferredBlockNode }

InitWalk ==
  /\ InitTemplate(WalkKinds)
  /\ diagnostics = <<>>
  /\ InitCache(1)

NextWalk == FindInterpolations \/ Visit \/ Return

SpecWalk == InitWalk /\ [][NextWalk]_vars

\* the find queries over trees of elements
FindKinds == { DivTest, Span, Para, BoundTextNode, IfBlockNode }

InitFind ==
  /\ InitTemplate(FindKinds)
  /\ diagnostics = <<>>
  /\ InitCache(1)

NextFind ==
  \/ FindElements
  \/ FindPropertyBindings
  \/ FindEventBindings
  \/ FindInterpolations
  \/ Visit
  \/ Return

SpecFind == InitFind /\ [][NextFind]_vars

(***************************************************************************)
(* The get queries over templates with expressions                         *)
(***************************************************************************)
\* @if (user.active) { } @else { }
IfUserActive ==
  [IfBlockNode EXCEPT
     !.expression = ASTWithSource(<<"u", ".", "a">>, PropertyRead(Read(<<"u">>), <<"a">>))]

\* @for (item of items; track item) { } @empty { }
ForItems ==
  [ForLoopBlockNode EXCEPT !.expression = ASTWithSource(<<"i">>, Read(<<"i">>))]

\* @switch (mode) { @case (1) { } @default { } }
SwitchMode ==
  [SwitchBlockNode EXCEPT !.expression = ASTWithSource(<<"m">>, Read(<<"m">>))]

\* save($event)
SaveEvent ==
  ASTWithSource(<<"s", "(", "$", "e", ")">>, Call(Read(<<"s">>), <<Read(<<"$", "e">>)>>))

\* <button [title]="f(a, a)" (click)="save($event)">
Button ==
  [NewNode(ElementClass, 1) EXCEPT
     !.name = <<"b">>,
     !.inputs = << [name |-> <<"t">>,
                    value |-> ASTWithSource(<<"f", "(", "a", ",", "a", ")">>,
                                            Call(Read(<<"f">>), <<Read(<<"a">>), Read(<<"a">>)>>))] >>,
     !.outputs = << [name |-> <<"c">>, handler |-> SaveEvent] >>]

\* <a [title]="'x'" (click)="save" (keyup)="handlers[0]($event)" (blur)="1">
Anchor ==
  [NewNode(ElementClass, 1) EXCEPT
     !.name = <<"a">>,
     !.inputs = << [name |-> <<"t">>,
                    value |-> ASTWithSource(<<"'", "x", "'">>, LiteralPrimitive)] >>,
     !.outputs = << [name |-> <<"c">>,
                     handler |-> ASTWithSource(<<"s">>, Read(<<"s">>))],
                    [name |-> <<"k">>,
                     handler |-> ASTWithSource(<<"h", "[", "0", "]", "(", "$", "e", ")">>,
                                   Call(KeyedRead(Read(<<"h">>), LiteralPrimitive),
                                        <<Read(<<"$", "e">>)>>))],
                    [name |-> <<"l">>,
                     handler |-> ASTWithSource(<<"1">>, LiteralPrimitive)] >>]

\* {{name1}}
Interpolation ==
  [BoundTextNode EXCEPT
     !.value = ASTWithSource(<<"{", "{", "n", "}", "}">>,
                             AST("Interpolation", <<>>, <<>>, <<Read(<<"n">>)>>))]

AnalysisKinds == { IfUserActive, ForItems, SwitchMode, Button, Anchor, Interpolation }

InitAnalysis ==
  /\ InitTemplate(AnalysisKinds)
  /\ diagnostics = <<>>
  /\ InitCache(1)

NextAnalysis ==
  \/ GetControlFlowExpressions
  \/ GetEventHandlers
  \/ GetPropertyBindings
  \/ GetBindingDependencies
  \/ Visit
  \/ Return

SpecAnalysis == InitAnalysis /\ [][NextAnalysis]_vars

(***************************************************************************)
(* The analyze methods over expressions                                    *)
(***************************************************************************)
\* how often an expression is extended, starting from a name or a literal
MaxOps == 2

Names == { <<"a">>, <<"b">> }

Atoms == {Read(n) : n \in Names} \cup {LiteralPrimitive}

\* e.a, e(), e(x), e(x, y), e[x], a(e) for names a and atoms x, y
Extensions(e) ==
  {PropertyRead(e, n) : n \in Names}
    \cup {Call(e, args) : args \in {<<>>} \cup {<<x>> : x \in Atoms}
                                    \cup {<<x, y>> : x, y \in Atoms}}
    \cup {KeyedRead(e, x) : x \in Atoms}
    \cup {Call(Read(n), <<e>>) : n \in Names}

RECURSIVE ExpressionsUpTo(_)
ExpressionsUpTo(k) ==
  IF k = 0 THEN Atoms
  ELSE ExpressionsUpTo(k - 1) \cup UNION {Extensions(e) : e \in ExpressionsUpTo(k - 1)}

\* the text an expression is written as
RECURSIVE SourceOf(_)
SourceOf(ast) ==
  LET Args(n) == IF n = 0 THEN <<>>
                 ELSE Flatten([i \in 1..n |->
                                 (IF i = 1 THEN <<>> ELSE <<",">>) \o SourceOf(ast.args[i])])
  IN CASE ast.type = "ImplicitReceiver" -> <<>>
       [] ast.type = "LiteralPrimitive" -> <<"1">>
       [] ast.type = "PropertyRead" ->
            IF ast.receiver[1].type = "ImplicitReceiver" THEN ast.name
            ELSE SourceOf(ast.receiver[1]) \o <<".">> \o ast.name
       [] ast.type = "Call" ->
            SourceOf(ast.receiver[1]) \o <<"(">> \o Args(Len(ast.args)) \o <<")">>
       [] ast.type = "KeyedRead" ->
            SourceOf(ast.receiver[1]) \o <<"[">> \o SourceOf(ast.args[1]) \o <<"]">>

\* the values handed to the analyze methods: parsed expressions, and
\* expressions without source
Values ==
  {ASTWithSource(SourceOf(e), e) : e \in ExpressionsUpTo(MaxOps)}
    \cup {[NoValue EXCEPT !.ast = e] : e \in Atoms}

InitExpression ==
  /\ pc = "start"
  /\ expr \in Values
  /\ record = NoRecord
  /\ InitNoTemplate
  /\ lastIndex = 0
  /\ selector = <<>>
  /\ parsed = NoOutcome
  /\ text = <<>>
  /\ reparsed = NoOutcome
  /\ element = NoElement
  /\ matched = <<>>
  /\ diagnostics = <<>>
  /\ InitCache(0)
  /\ InitNoProject

Analyzed(r) ==
  /\ pc = "start"
  /\ record' = r
  /\ pc' = "analyzed"
  /\ UNCHANGED <<expr, lastIndex, selectorVars, templateVars, cacheVars, projectVars>>

\* analyzeIfExpression of an IfBlock whose first branch has the expression
AnalyzeIfExpression == Analyzed(analyzeExpression("if", expr, 0))

AnalyzeForExpression == Analyzed(analyzeExpression("for", expr, 0))

AnalyzeSwitchExpression == Analyzed(analyzeExpression("switch", expr, 0))

AnalyzeCaseExpression == Analyzed(analyzeExpression("case", expr, 0))

\* analyzePropertyBinding of a binding [t] with the value
AnalyzePropertyBinding ==
  Analyzed(analyzePropertyBinding([name |-> <<"t">>, value |-> expr], 0))

\* analyzeEventHandler of a binding (c) with the handler
AnalyzeEventHandler ==
  Analyzed(analyzeEventHandler([name |-> <<"c">>, handler |-> expr], 0))

NextExpression ==
  \/ AnalyzeIfExpression
  \/ AnalyzeForExpression
  \/ AnalyzeSwitchExpression
  \/ AnalyzeCaseExpression
  \/ AnalyzePropertyBinding
  \/ AnalyzeEventHandler

SpecExpression == InitExpression /\ [][NextExpression]_vars

(***************************************************************************)
(* Sequences of calls on one Template object                               *)
(***************************************************************************)
\* how many methods the caller invokes on the Template
MaxCalls == 3

ParseError(msg, span) == [msg |-> msg, span |-> span]

\* what the template parser reports for the content: nothing, or up to two
\* errors
Diagnostics ==
  { <<>>,
    << ParseError("e1", 1) >>,
    << ParseError("e1", 1), ParseError("e2", 2) >>,
    << ParseError("e2", 2), ParseError("e1", 1) >> }

\* a method that returns without traversing: the caller has its value
Returns(op, value) ==
  /\ CallerReady
  /\ callsLeft' = callsLeft - 1
  /\ query' = [op |-> op, arg |-> <<>>]
  /\ stack' = <<>>
  /\ visited' = <<>>
  /\ thrown' = ""
  /\ result' = value
  /\ pc' = "returned"
  /\ UNCHANGED <<nodes, diagnostics, lastIndex, selectorVars, analysisVars, projectVars>>

\* Template.getContent()
GetContent ==
  /\ Returns("getContent", <<"content">>)
  /\ UNCHANGED <<parsedTemplate, errors, parserCalls>>

\* Template.getPath()
GetPath ==
  /\ Returns("getPath", <<"path">>)
  /\ UNCHANGED <<parsedTemplate, errors, parserCalls>>

\* Template.parse(), called by the user of the Template
ParseCall ==
  /\ TemplateParse
  /\ Returns("parse", parsedTemplate'.nodes)

\* a getErrors that returns this.errors without parsing
GetErrors_NoParse ==
  /\ UNCHANGED <<parsedTemplate, errors, parserCalls>>
  /\ Returns("getErrors", errors')

\* Template.getErrors()
GetErrors ==
  /\ IF parsedTemplate.isNull THEN TemplateParse
     ELSE UNCHANGED <<parsedTemplate, errors, parserCalls>>
  /\ Returns("getErrors", errors')

\* Template.validateBindings()
ValidateBindings ==
  /\ IF parsedTemplate.isNull THEN TemplateParse
     ELSE UNCHANGED <<parsedTemplate, errors, parserCalls>>
  /\ Returns("validateBindings", errors')

CacheKinds == { DivTest, BoundTextNode }

InitCalls ==
  /\ InitTemplate(CacheKinds)
  /\ diagnostics \in Diagnostics
  /\ InitCache(MaxCalls)

NextCalls ==
  \/ GetContent
  \/ GetPath
  \/ ParseCall
  \/ GetErrors
  \/ ValidateBindings
  \/ FindElements
  \/ FindInterpolations
  \/ GetPropertyBindings
  \/ Visit
  \/ Return

SpecCalls == InitCalls /\ [][NextCalls]_vars

(***************************************************************************)
(* class Project and class ComponentFile over a ts-morph project           *)
(***************************************************************************)
\* the segments of a path: what lies between its slashes
RECURSIVE Segments(_)
Segments(path) ==
  IF path = <<>> THEN <<>>
  ELSE IF path[1] = "/" THEN Segments(Tail(path))
  ELSE LET stop == CHOOSE j \in 2..(Len(path) + 1) :
                     /\ (j = Len(path) + 1 \/ path[j] = "/")
                     /\ \A k \in 1..(j - 1) : path[k] # "/"
       IN <<SubSeq(path, 1, stop - 1)>> \o Segments(SubSeq(path, stop, Len(path)))

JoinPath(segments) == Flatten([i \in 1..Len(segments) |-> <<"/">> \o segments[i]])

\* the file path ts-morph keeps for a path it is given: absolute (the working
\* directory is /), without empty and . segments
StandardizePath(path) ==
  LET Kept(segment) == segment # <<".">>
  IN JoinPath(SelectSeq(Segments(path), Kept))

\* SourceFile.getDirectoryPath()
getDirectoryPath(filePath) ==
  LET segments == Segments(filePath)
  IN IF Len(segments) <= 1 THEN <<"/">>
     ELSE JoinPath(SubSeq(segments, 1, Len(segments) - 1))

\* the text of a source file, as far as ComponentFile reads it: whether a
\* class has a @Component decorator, and the string literals of the
\* decorator's template and templateUrl properties (null: no such literal)
SourceText(decorated, template, templateUrl, fullText) ==
  [decorated |-> decorated, template |-> template, templateUrl |-> templateUrl,
   fullText |-> fullText]

Null == [isNull |-> TRUE, text |-> <<>>]

String(str) == [isNull |-> FALSE, text |-> str]

\* export class NotAComponent {}
NotAComponent == SourceText(FALSE, Null, Null, <<"p">>)

\* @Component({template: '<d>'})
ComponentWithTemplate == SourceText(TRUE, String(<<"<", "d", ">">>), Null, <<"c">>)

\* @Component({templateUrl: './t.html'})
ComponentWithTemplateUrl ==
  SourceText(TRUE, Null, String(<<".", "/", "t", ".", "h", "t", "m", "l">>), <<"u">>)

\* @Component({selector: 'x'}), without template
ComponentWithoutTemplate == SourceText(TRUE, Null, Null, <<"n">>)

\* the template file t.html of the directory /
TemplateFile ==
  [filePath |-> <<"/", "t", ".", "h", "t", "m", "l">>,
   given |-> <<"t", ".", "h", "t", "m", "l">>,
   text |-> SourceText(FALSE, Null, Null, <<"<", "t", ">">>)]

\* project.getSourceFileOrThrow(path): the files of the project at the path
FilesAt(project, path) == {f \in project : f.filePath = StandardizePath(path)}

\* new ComponentFile(sourceFile): findComponentDecorator and parseTemplate
NewComponentFile(sourceFile, project) ==
  LET src == sourceFile.text
      made(content) ==
        [threw |-> FALSE, error |-> <<>>,
         sourceFile |-> sourceFile.filePath,
         componentDecorator |-> src.decorated,
         templateContent |-> content]
  IN IF ~ src.decorated THEN made(Null)
     ELSE IF ~ src.template.isNull THEN made(src.template)
     ELSE IF src.templateUrl.isNull THEN made(Null)
     ELSE LET fullTemplatePath ==
                getDirectoryPath(sourceFile.filePath) \o <<"/">> \o src.templateUrl.text
              found == FilesAt(project, fullTemplatePath)
          IN IF found = {}
             THEN [threw |-> TRUE,
                   error |-> <<"Template file not found: ">> \o src.templateUrl.text,
                   sourceFile |-> sourceFile.filePath,
                   componentDecorator |-> src.decorated,
                   templateContent |-> Null]
             ELSE made(String((CHOOSE f \in found : TRUE).text.fullText))

\* Map.prototype.set
MapSet(map, key, value) ==
  [k \in DOMAIN map \cup {key} |-> IF k = key THEN value ELSE map[k]]

Threw(call, arg, error) ==
  [call |-> call, arg |-> arg, threw |-> TRUE, error |-> error, text |-> NotAComponent,
   value |-> Null]

Returned(call, arg, sourceText, value) ==
  [call |-> call, arg |-> arg, threw |-> FALSE, error |-> <<>>, text |-> sourceText,
   value |-> value]

Undefined == [isUndefined |-> TRUE]

Defined(componentFile) == [isUndefined |-> FALSE, componentFile |-> componentFile]

FilePaths ==
  { <<"a", ".", "t", "s">>, <<"/", "a", ".", "t", "s">>, <<"s", "/", "a", ".", "t", "s">> }

SourceTexts ==
  { NotAComponent, ComponentWithTemplate, ComponentWithTemplateUrl, ComponentWithoutTemplate }

\* new Project(tsProject) for a ts-morph project without .ts files
InitProject ==
  /\ pc = "project"
  /\ tsProject \in { {}, {TemplateFile} }
  /\ componentFiles = <<>>
  /\ outcome = NoOutcomeYet
  /\ InitNoTemplate
  /\ InitNoAnalysis
  /\ lastIndex = 0
  /\ selector = <<>>
  /\ parsed = NoOutcome
  /\ text = <<>>
  /\ reparsed = NoOutcome
  /\ element = NoElement
  /\ matched = <<>>
  /\ diagnostics = <<>>
  /\ InitCache(0)

\* Project.createSourceFile(filePath, sourceFileText, options); ts-morph
\* refuses a path that has a source file already unless options.overwrite is
\* set, and then replaces the file
CreateSourceFile ==
  /\ pc = "project"
  /\ \E filePath \in FilePaths, sourceFileText \in SourceTexts, overwrite \in BOOLEAN :
       LET sourceFile == [filePath |-> StandardizePath(filePath), given |-> filePath,
                          text |-> sourceFileText]
       IN IF FilesAt(tsProject, filePath) # {} /\ ~ overwrite
          THEN /\ outcome' = Threw("createSourceFile", filePath, <<"exists">>)
               /\ UNCHANGED <<tsProject, componentFiles>>
          ELSE /\ tsProject' = (tsProject \ FilesAt(tsProject, filePath)) \cup {sourceFile}
               /\ \E componentFile \in {NewComponentFile(sourceFile, tsProject')} :
                    IF componentFile.threw
                    THEN /\ outcome' = Threw("createSourceFile", filePath,
                                             componentFile.error)
                         /\ UNCHANGED componentFiles
                    ELSE /\ outcome' = Returned("createSourceFile", filePath,
                                                sourceFileText, sourceFile.filePath)
                         /\ componentFiles' =
                              IF componentFile.componentDecorator
                              THEN MapSet(componentFiles, sourceFile.filePath, componentFile)
                              ELSE componentFiles
  /\ UNCHANGED <<pc, lastIndex, selectorVars, templateVars, analysisVars, cacheVars>>

\* Project.getComponent(filePath)
GetComponent ==
  /\ pc = "project"
  /\ \E filePath \in FilePaths \cup {<<"n", ".", "t", "s">>} :
       outcome' = Returned("getComponent", filePath, NotAComponent,
                           IF filePath \in DOMAIN componentFiles
                           THEN Defined(componentFiles[filePath]) ELSE Undefined)
  /\ UNCHANGED <<pc, lastIndex, selectorVars, templateVars, analysisVars, cacheVars,
                 tsProject, componentFiles>>

\* ComponentFile.getTemplate() on a component of the project
GetTemplate ==
  /\ pc = "project"
  /\ \E key \in DOMAIN componentFiles :
       outcome' = Returned("getTemplate", key, NotAComponent,
                           componentFiles[key].templateContent)
  /\ UNCHANGED <<pc, lastIndex, selectorVars, templateVars, analysisVars, cacheVars,
                 tsProject, componentFiles>>

NextProject == CreateSourceFile \/ GetComponent \/ GetTemplate

SpecProject == InitProject /\ [][NextProject]_vars

(***************************************************************************)
(* findElements with attribute selectors over elements with bindings       *)
(***************************************************************************)
\* <b [title]="1">
Bold ==
  [NewNode(ElementClass, 1) EXCEPT
     !.name = <<"b">>,
     !.inputs = << [name |-> <<"t", "i", "t", "l", "e">>,
                    value |-> ASTWithSource(<<"1">>, LiteralPrimitive)] >>]

AttributeKinds == { DivTest, Bold, Span }

AttributeSelectors ==
  { <<"[", "t", "i", "t", "l", "e", "]">>,
    <<"[", "t", "i", "t", "l", "e", "=", "a", "]">>,
    <<"[", "t", "i", "t", "l", "e", "=", "1", "]">>,
    <<"[", "c", "l", "a", "s", "s", "=", "t", "e", "s", "t", "]">> }

\* Template.findElements(selector) with an attribute selector
FindElementsByAttribute == \E sel \in AttributeSelectors : Begin("findElements", sel)

InitAttribute ==
  /\ InitTemplate(AttributeKinds)
  /\ diagnostics = <<>>
  /\ InitCache(1)

NextAttribute == FindElementsByAttribute \/ Visit \/ Return

SpecAttribute == InitAttribute /\ [][NextAttribute]_vars

(***************************************************************************)
(* findElements with selector strings that hold an empty alternative       *)
(***************************************************************************)
EveryKinds == { DivTest, Span, IfBlockNode, BoundTextNode }

\* the empty string, strings that end in a comma, and for contrast strings
\* that do not, the last of which parse rejects
EverySelectors ==
  { <<>>,
    <<",">>,
    <<"s", "p", "a", "n", ",">>,
    <<"d", "i", "v", " ", ",", " ">>,
    <<":", "n", "o", "t", "(", "s", "p", "a", "n", ")", ",">>,
    <<"s", "p", "a", "n">>,
    <<",", "s", "p", "a", "n">>,
    <<":", "n", "o", "t", "(", "a", ",">> }

\* Template.findElements(selector)
FindElementsOfEvery == \E sel \in EverySelectors : Begin("findElements", sel)

InitEvery ==
  /\ InitTemplate(EveryKinds)
  /\ diagnostics = <<>>
  /\ InitCache(1)

NextEvery == FindElementsOfEvery \/ Visit \/ Return

SpecEvery == InitEvery /\ [][NextEvery]_vars

(***************************************************************************)
(* ast/types.ts: every guard of is, applied to a node of every class       *)
(***************************************************************************)
\* the typeName each guard of is hands to checkNodeType
TypeNames ==
  [ element |-> <<"E", "l", "e", "m", "e", "n", "t">>,
    text |-> <<"T", "e", "x", "t">>,
    template |-> <<"T", "e", "m", "p", "l", "a", "t", "e">>,
    attribute |-> <<"T", "e", "x", "t", "A", "t", "t", "r", "i", "b", "u", "t", "e">>,
    propertyBinding |-> <<"B", "o", "u", "n", "d", "A", "t", "t", "r", "i", "b", "u", "t", "e">>,
    eventBinding |-> <<"B", "o", "u", "n", "d", "E", "v", "e", "n", "t">>,
    boundText |-> <<"B", "o", "u", "n", "d", "T", "e", "x", "t">>,
    content |-> <<"C", "o", "n", "t", "e", "n", "t">>,
    reference |-> <<"R", "e", "f", "e", "r", "e", "n", "c", "e">>,
    variable |-> <<"V", "a", "r", "i", "a", "b", "l", "e">>,
    ifBlock |-> <<"I", "f", "B", "l", "o", "c", "k">>,
    forBlock |-> <<"F", "o", "r", "L", "o", "o", "p", "B", "l", "o", "c", "k">>,
    switchBlock |-> <<"S", "w", "i", "t", "c", "h", "B", "l", "o", "c", "k">>,
    caseBlock |-> <<"S", "w", "i", "t", "c", "h", "B", "l", "o", "c", "k", "C", "a", "s", "e">>,
    deferBlock |-> <<"D", "e", "f", "e", "r", "r", "e", "d", "B", "l", "o", "c", "k">>,
    deferLoading |-> <<"D", "e", "f", "e", "r", "r", "e", "d", "B", "l", "o", "c", "k", "L", "o", "a", "d", "i", "n", "g">>,
    deferError |-> <<"D", "e", "f", "e", "r", "r", "e", "d", "B", "l", "o", "c", "k", "E", "r", "r", "o", "r">>,
    deferPlaceholder |-> <<"D", "e", "f", "e", "r", "r", "e", "d", "B", "l", "o", "c", "k", "P", "l", "a", "c", "e", "h", "o", "l", "d", "e", "r">> ]

\* constructor.name of the class each guard is declared to narrow to
GuardedClass ==
  [ element |-> ElementClass,
    text |-> TextClass,
    template |-> TemplateClass,
    attribute |-> <<"T", "e", "x", "t", "A", "t", "t", "r", "i", "b", "u", "t", "e">>,
    propertyBinding |-> <<"B", "o", "u", "n", "d", "A", "t", "t", "r", "i", "b", "u", "t", "e">>,
    eventBinding |-> <<"B", "o", "u", "n", "d", "E", "v", "e", "n", "t">>,
    boundText |-> BoundTextClass,
    content |-> <<"C", "o", "n", "t", "e", "n", "t">>,
    reference |-> <<"R", "e", "f", "e", "r", "e", "n", "c", "e">>,
    variable |-> <<"V", "a", "r", "i", "a", "b", "l", "e">>,
    ifBlock |-> IfBlockClass,
    forBlock |-> ForLoopBlockClass,
    switchBlock |-> SwitchBlockClass,
    caseBlock |-> SwitchBlockCaseClass,
    deferBlock |-> DeferredBlockClass,
    deferLoading |-> <<"D", "e", "f", "e", "r", "r", "e", "d", "B", "l", "o", "c", "k", "L", "o", "a", "d", "i", "n", "g">>,
    deferError |-> <<"D", "e", "f", "e", "r", "r", "e", "d", "B", "l", "o", "c", "k", "E", "r", "r", "o", "r">>,
    deferPlaceholder |-> <<"D", "e", "f", "e", "r", "r", "e", "d", "B", "l", "o", "c", "k", "P", "l", "a", "c", "e", "h", "o", "l", "d", "e", "r">> ]

\* is[guard](node)
is(guard, node) == checkNodeType(node, TypeNames[guard])

\* a node of one of the classes, no guard applied yet
InitGuards ==
  /\ pc = "start"
  /\ nodes \in {<<NewNode(GuardedClass[g], 0)>> : g \in DOMAIN GuardedClass}
  /\ query = NoQuery
  /\ stack = <<>>
  /\ visited = <<>>
  /\ result = <<>>
  /\ thrown = ""
  /\ InitNoAnalysis
  /\ InitNoProject
  /\ diagnostics = <<>>
  /\ InitCache(0)
  /\ lastIndex = 0
  /\ selector = <<>>
  /\ parsed = NoOutcome
  /\ text = <<>>
  /\ reparsed = NoOutcome
  /\ element = NoElement
  /\ matched = <<>>

\* a call of one guard on the node
ApplyGuard ==
  /\ pc \in {"start", "guarded"}
  /\ \E guard \in DOMAIN TypeNames :
       /\ query' = [op |-> guard, arg |-> <<>>]
       /\ result' = <<is(guard, nodes[1])>>
  /\ pc' = "guarded"
  /\ UNCHANGED <<nodes, stack, visited, thrown, lastIndex, selectorVars, analysisVars,
                 cacheVars, projectVars>>

NextGuards == ApplyGuard

SpecGuards == InitGuards /\ [][NextGuards]_vars

(***************************************************************************)
(* Properties of the traversal and of findElements                         *)
(***************************************************************************)
\* the child groups the traversal is to descend into: the children of an
\* Element or Template, of every branch of an IfBlock and of every case of a
\* SwitchBlock, and the body of a ForLoopBlock
Descends(parent, g) ==
  CASE parent.className = ElementClass -> TRUE
    [] parent.className = TemplateClass -> TRUE
    [] parent.className = IfBlockClass -> TRUE
    [] parent.className = SwitchBlockClass -> TRUE
    [] parent.className = ForLoopBlockClass -> g = 1
    [] OTHER -> FALSE

RECURSIVE IsReachable(_, _)
IsReachable(t, i) ==
  \/ t[i].parent = 0
  \/ IsReachable(t, t[i].parent) /\ Descends(t[t[i].parent], t[i].slot)

Reachable(t) == {i \in 1..Len(t) : IsReachable(t, i)}

Range(seq) == {seq[i] : i \in 1..Len(seq)}

NoRepeats(seq) == \A i, j \in 1..Len(seq) : i # j => seq[i] # seq[j]

\* C1 as stated: a findElements call with a malformed selector never
\* returns a list, whatever the template; it fails
C1_MalformedSelectorFails ==
  (pc = "returned" /\ query.op = "findElements") => parse(query.arg).ok

\* C8: findElements with an accepted selector returns, each once, exactly the
\* reachable nodes of class Element whose record satisfies the match
\* conditions of at least one alternative of the selector; the record has
\* the element's name as tag, the static attributes followed by the property
\* bindings as attributes and the tokens of the static class attribute as
\* class list
C8_FindElementsExact ==
  (pc = "returned" /\ query.op = "findElements") =>
    LET alternatives == parse(query.arg).selectors
        Wanted(i) ==
          /\ nodes[i].className = ElementClass
          /\ \E a \in 1..Len(alternatives) :
               MatchConditions(alternatives[a], ElementInfo(nodes[i]))
    IN /\ NoRepeats(result)
       /\ \A n \in 1..Len(result) : result[n].index = 0
       /\ {result[n].node : n \in 1..Len(result)} = {i \in Reachable(nodes) : Wanted(i)}
       /\ \A i \in Reachable(nodes) :
            nodes[i].className = ElementClass =>
              LET info == ElementInfo(nodes[i])
                  classValues == {nodes[i].attributes[k].value :
                                    k \in {j \in 1..Len(nodes[i].attributes) :
                                             nodes[i].attributes[j].name = ClassAttrName}}
              IN /\ info.tagName = nodes[i].name
                 /\ [k \in 1..Len(info.attributes) |-> info.attributes[k].name] =
                      [k \in 1..Len(nodes[i].attributes) |-> nodes[i].attributes[k].name]
                        \o [k \in 1..Len(nodes[i].inputs) |-> nodes[i].inputs[k].name]
                 /\ \A tok \in Range(info.classList) :
                      \E v \in classValues :
                        \E a, b \in 1..Len(v) :
                          /\ tok = SubSeq(v, a, b)
                          /\ \A k \in a..b : v[k] \notin SpaceChars
                          /\ (a = 1 \/ v[a - 1] \in SpaceChars)
                          /\ (b = Len(v) \/ v[b + 1] \in SpaceChars)
                 /\ classValues # {} => info.classList # <<>>

\* <div class="test"><span></span><div class="test"></div></div>, div.test
C8_Witness ==
  /\ pc = "returned"
  /\ query = [op |-> "findElements", arg |-> <<"d", "i", "v", ".", "t", "e", "s", "t">>]
  /\ nodes = << DivTest,
                [Span EXCEPT !.parent = 1],
                [DivTest EXCEPT !.parent = 1] >>
  /\ {result[n].node : n \in 1..Len(result)} = {1, 3}

\* C9: the traversal never invokes the visitor twice on a node and never
\* holds a node twice, so it ends within as many iterations as there are
\* nodes; when it has ended the visitor has been invoked once on each
\* reachable node and on no other
C9_EachNodeOnce ==
  /\ pc \in {"walking", "returned"} =>
       /\ NoRepeats(visited \o stack)
       /\ Range(visited) \cup Range(stack) \subseteq Reachable(nodes)
  /\ pc = "returned" =>
       /\ Range(visited) = Reachable(nodes)
       /\ Len(visited) = Cardinality(Reachable(nodes))

C9_Witness ==
  /\ pc = "returned"
  /\ Len(visited) = 3
  /\ \E i, j \in 1..Len(nodes) :
       /\ i # j
       /\ nodes[i].parent # 0
       /\ nodes[i].parent = nodes[j].parent
       /\ nodes[i].slot # nodes[j].slot

\* document order of result entries
Before(x, y) == x.node < y.node \/ (x.node = y.node /\ x.index < y.index)

\* C10 as stated: the visitor is invoked on a node before its descendants
\* and on the nodes in document order, and the list a find query returns is
\* in document order
C10_DocumentOrder ==
  pc = "returned" =>
    /\ \A i, j \in 1..Len(visited) : i < j => visited[i] < visited[j]
    /\ \A i, j \in 1..Len(result) : i < j => Before(result[i], result[j])

(***************************************************************************)
(* Properties of the get queries                                           *)
(***************************************************************************)
CountType(list, type) == Cardinality({n \in 1..Len(list) : list[n].type = type})

ReachableOfClass(t, class) == {i \in Reachable(t) : t[i].className = class}

\* C11 as stated: getControlFlowExpressions returns one record of type if for
\* each IfBlock the traversal reaches, built from the condition of its first
\* branch, one of type for for each ForLoopBlock, one of type switch for each
\* SwitchBlock and one of type case for each case of such a SwitchBlock
C11_OneRecordPerBlock ==
  (pc = "returned" /\ query.op = "getControlFlowExpressions") =>
    /\ CountType(result, "if") = Cardinality(ReachableOfClass(nodes, IfBlockClass))
    /\ \A n \in 1..Len(result) :
         result[n].type = "if" =>
           result[n].expression = ExpressionText(nodes[result[n].sourceSpan].expression)
    /\ CountType(result, "for") = Cardinality(ReachableOfClass(nodes, ForLoopBlockClass))
    /\ CountType(result, "switch") = Cardinality(ReachableOfClass(nodes, SwitchBlockClass))
    /\ CountType(result, "case") =
         Cardinality(UNION {{<<i, c>> : c \in 1..nodes[i].groups} :
                              i \in ReachableOfClass(nodes, SwitchBlockClass)})

\* every node of an expression
RECURSIVE AllNodes(_)
AllNodes(ast) ==
  {ast} \cup UNION {AllNodes(ast.receiver[i]) : i \in 1..Len(ast.receiver)}
        \cup UNION {AllNodes(ast.args[i]) : i \in 1..Len(ast.args)}

\* the names read from the implicit receiver somewhere in an expression
ImplicitReads(ast) ==
  {n.name : n \in {m \in AllNodes(ast) :
                     /\ m.type = "PropertyRead"
                     /\ m.receiver[1].type = "ImplicitReceiver"}}

BasicTypes == {"PropertyRead", "Call", "ImplicitReceiver", "LiteralPrimitive"}

HasDependencies(r) == r.type \in {"if", "for", "switch", "case", "PropertyBinding"}

\* C12: for a parsed expression built from property reads, calls, implicit
\* receivers and literals, the names in referencedProperties are exactly the
\* names of the property reads whose receiver is the implicit receiver; there
\* are none when the expression has no such read
C12_ImplicitReadsOnly ==
  (pc = "analyzed" /\ HasDependencies(record) /\ expr.isASTWithSource
     /\ \A n \in AllNodes(expr.ast) : n.type \in BasicTypes) =>
    Range(record.referencedProperties) = ImplicitReads(expr.ast)

\* user.active, analysed as the condition of an @if
C12_Witness ==
  /\ pc = "analyzed"
  /\ record.type = "if"
  /\ expr.isASTWithSource
  /\ expr.ast = PropertyRead(Read(<<"a">>), <<"b">>)
  /\ record.referencedProperties = << <<"a">> >>

\* C13 as stated: referencedProperties of a PropertyBinding or
\* ControlFlowExpression record holds no name more than once
C13_NoNameTwice ==
  (pc = "analyzed" /\ HasDependencies(record)) => NoRepeats(record.referencedProperties)

\* the event bindings of the elements the traversal reaches
ReachableOutputs(t) ==
  UNION {{Entry(i, k) : k \in 1..Len(t[i].outputs)} : i \in ReachableOfClass(t, ElementClass)}

\* C14 as stated: getEventHandlers returns one record per event binding whose
\* handler is a parsed expression; for a bare property read the name is the
\* property's and there are no arguments, for a call whose receiver is a
\* property read the name is the receiver's and the arguments are the call's
\* arguments, stringified, in order; for every other handler the name and the
\* arguments are empty
C14_HandlerShapes ==
  (pc = "returned" /\ query.op = "getEventHandlers") =>
    /\ NoRepeats([n \in 1..Len(result) |-> result[n].sourceSpan])
    /\ {result[n].sourceSpan : n \in 1..Len(result)} =
         {b \in ReachableOutputs(nodes) : nodes[b.node].outputs[b.index].handler.isASTWithSource}
    /\ \A n \in 1..Len(result) :
         LET b == result[n].sourceSpan
             root == nodes[b.node].outputs[b.index].handler.ast
         IN IF root.type = "PropertyRead"
            THEN result[n].name = root.name /\ result[n].arguments = <<>>
            ELSE IF root.type = "Call" /\ root.receiver[1].type = "PropertyRead"
            THEN /\ result[n].name = root.receiver[1].name
                 /\ result[n].arguments =
                      [i \in 1..Len(root.args) |-> toStringAST(root.args[i])]
            ELSE result[n].name = <<>> /\ result[n].arguments = <<>>

\* the property bindings of the elements the traversal reaches
ReachableInputs(t) ==
  UNION {{Entry(i, k) : k \in 1..Len(t[i].inputs)} : i \in ReachableOfClass(t, ElementClass)}

\* C15 as stated: getBindingDependencies returns a list without duplicates
\* that holds the name of each property binding, the stringified handler of
\* each event binding and the stringified expression of each interpolation
C15_NamesAndTexts ==
  (pc = "returned" /\ query.op = "getBindingDependencies") =>
    /\ NoRepeats(result)
    /\ \A b \in ReachableInputs(nodes) :
         nodes[b.node].inputs[b.index].name \in Range(result)
    /\ \A b \in ReachableOutputs(nodes) :
         toStringValue(nodes[b.node].outputs[b.index].handler) \in Range(result)
    /\ \A i \in ReachableOfClass(nodes, BoundTextClass) :
         toStringValue(nodes[i].value) \in Range(result)

\* the texts C16 expects in the list: the expression of each property
\* binding, the handler of each event binding, the expression of each
\* interpolation, as written in the template
WrittenTexts(t) ==
  {t[b.node].inputs[b.index].value.source : b \in ReachableInputs(t)}
    \cup {t[b.node].outputs[b.index].handler.source : b \in ReachableOutputs(t)}
    \cup {SourceOf(t[i].value.ast.args[1]) : i \in ReachableOfClass(t, BoundTextClass)}

\* C16 as stated: the list getBindingDependencies returns holds the text of
\* every property binding's expression, of every event binding's handler and
\* of every interpolation's expression, so it has at least as many entries as
\* there are different such texts
C16_ExpressionTexts ==
  (pc = "returned" /\ query.op = "getBindingDependencies") =>
    /\ WrittenTexts(nodes) \subseteq Range(result)
    /\ Len(result) >= Cardinality(WrittenTexts(nodes))

(***************************************************************************)
(* Properties of the Template's cache                                      *)
(***************************************************************************)
\* the methods that call Template.parse
ParsingOps ==
  {"parse", "getErrors", "validateBindings", "findElements", "findPropertyBindings",
   "findEventBindings", "findInterpolations", "getBindingDependencies",
   "getEventHandlers", "getPropertyBindings", "getControlFlowExpressions"}

\* C17: the template parser is invoked at most once; it is invoked by the
\* first call of parse, getErrors, validateBindings or a find or get query,
\* never by getContent or getPath and not before the first call; from then
\* on the cached outcome stays as that invocation left it, and the
\* traversals run on its node tree
C17_ParserInvokedOnce ==
  /\ [](/\ parserCalls <= 1
        /\ parsedTemplate.isNull <=> parserCalls = 0
        /\ parserCalls = 1 => parsedTemplate = parseTemplate(nodes, diagnostics)
        /\ query.op \in ParsingOps => parserCalls = 1
        /\ query.op = "none" => parserCalls = 0)
  /\ [][/\ query'.op \in {"getContent", "getPath"} => parserCalls' = parserCalls
        /\ ~ parsedTemplate.isNull => UNCHANGED <<parsedTemplate, errors>>
        /\ pc' = "walking" /\ pc # "walking" => stack' = Roots(parsedTemplate.nodes')]_vars

\* a third call, after the parser was invoked by an earlier one
C17_Witness ==
  /\ pc = "returned"
  /\ callsLeft = MaxCalls - 3
  /\ query.op = "findInterpolations"
  /\ parserCalls = 1
  /\ Len(nodes) > 0

\* C18: getErrors and validateBindings return one BindingError per error the
\* parser reported, in the parser's order, whatever was called before; the
\* parser has been invoked by then, and neither they nor parse throw
C18_ErrorsFromParser ==
  /\ (pc = "returned" /\ query.op \in {"getErrors", "validateBindings"}) =>
       /\ result = [i \in 1..Len(diagnostics) |->
                      [message |-> diagnostics[i].msg, span |-> diagnostics[i].span,
                       level |-> "error"]]
       /\ parserCalls = 1
  /\ query.op \in {"getErrors", "validateBindings", "parse"} => pc = "returned"

\* getErrors as the first call on a template with two parser errors
C18_Witness ==
  /\ pc = "returned"
  /\ query.op = "getErrors"
  /\ callsLeft = MaxCalls - 1
  /\ Len(diagnostics) = 2
  /\ Len(result) = 2


\* the source files of the project that createSourceFile was given this path
\* string for
CreatedAs(path) == {f \in tsProject : f.given = path}

\* createSourceFile of this file raises no error: the file is no component,
\* or its template is inline, or its templateUrl names a file of the project
TemplateAtHand(f) == ~ NewComponentFile(f, tsProject).threw

\* C19: getComponent(path) returns the ComponentFile of the source file that
\* createSourceFile was given the same path string for when that file declares
\* a @Component class, undefined when the file declares none, and undefined
\* when no source file is at the path.
C19_SamePathString ==
  outcome.call = "getComponent" =>
    /\ \A f \in CreatedAs(outcome.arg) :
         /\ (f.text.decorated /\ TemplateAtHand(f)) =>
              /\ ~ outcome.value.isUndefined
              /\ outcome.value.componentFile.sourceFile = f.filePath
         /\ ~ f.text.decorated => outcome.value.isUndefined
    /\ FilesAt(tsProject, outcome.arg) = {} => outcome.value.isUndefined

\* the templateUrl of this source text names no file of the project, for a
\* source file at this path
TemplateMissing(path, sourceText) ==
  /\ sourceText.decorated
  /\ sourceText.template.isNull
  /\ ~ sourceText.templateUrl.isNull
  /\ FilesAt(tsProject,
             getDirectoryPath(StandardizePath(path)) \o <<"/">> \o sourceText.templateUrl.text)
       = {}

\* C20: createSourceFile of a component whose templateUrl names no file of
\* the project returns and registers the component, and getTemplate() of a
\* registered component whose templateUrl names no file of the project raises
\* Template file not found: <templateUrl>.
C20_ErrorAtGetTemplate ==
  /\ \A f \in tsProject :
       TemplateMissing(f.filePath, f.text) => f.filePath \in DOMAIN componentFiles
  /\ outcome.call = "createSourceFile" =>
       (outcome.threw => outcome.error = <<"exists">>)
  /\ (/\ outcome.call = "getTemplate"
      /\ \E f \in tsProject : f.filePath = outcome.arg /\ TemplateMissing(f.filePath, f.text))
       => /\ outcome.threw
          /\ \E f \in tsProject :
               /\ f.filePath = outcome.arg
               /\ outcome.error = <<"Template file not found: ">> \o f.text.templateUrl.text

(***************************************************************************)
(* Properties of the find queries for bindings                             *)
(***************************************************************************)
\* the bindings of this name on the reachable elements: inputs or outputs
BindingsNamed(t, field, name) ==
  UNION { { Entry(i, k) : k \in {j \in 1..Len(t[i][field]) : t[i][field][j].name = name} } :
            i \in {j \in Reachable(t) : t[j].className = ElementClass} }

\* C21: findPropertyBindings(name) returns, each once, exactly the input
\* bindings of the reachable Element nodes whose name equals the argument,
\* and findEventBindings(name) exactly the output bindings whose name equals
\* the argument
C21_BindingsByExactName ==
  /\ (pc = "returned" /\ query.op = "findPropertyBindings") =>
       /\ NoRepeats(result)
       /\ Range(result) = BindingsNamed(nodes, "inputs", query.arg)
  /\ (pc = "returned" /\ query.op = "findEventBindings") =>
       /\ NoRepeats(result)
       /\ Range(result) = BindingsNamed(nodes, "outputs", query.arg)

\* two elements that each carry [title], one inside the other, asked for title
C21_Witness ==
  /\ pc = "returned"
  /\ query = [op |-> "findPropertyBindings", arg |-> <<"t", "i", "t", "l", "e">>]
  /\ nodes = << DivTest, [DivTest EXCEPT !.parent = 1] >>
  /\ Len(result) = 2

(***************************************************************************)
(* Properties of the descent of the traversal                              *)
(***************************************************************************)
\* the node lies in the empty branch of a ForLoopBlock, or below a node
\* that does
RECURSIVE InEmptyBranch(_, _)
InEmptyBranch(t, i) ==
  /\ t[i].parent # 0
  /\ \/ (t[t[i].parent].className = ForLoopBlockClass /\ t[i].slot = 2)
     \/ InEmptyBranch(t, t[i].parent)

\* C22: when the traversal has ended, the children of every branch of a
\* visited IfBlock, the body children of a visited ForLoopBlock and the
\* children of every case of a visited SwitchBlock have been visited, and no
\* node in the empty branch of a ForLoopBlock has.
C22_DescendsIntoBranches ==
  pc = "returned" =>
    /\ \A i \in 1..Len(nodes) :
         (nodes[i].parent # 0 /\ nodes[i].parent \in Range(visited)) =>
           /\ nodes[nodes[i].parent].className \in {IfBlockClass, SwitchBlockClass} =>
                i \in Range(visited)
           /\ (nodes[nodes[i].parent].className = ForLoopBlockClass /\ nodes[i].slot = 1) =>
                i \in Range(visited)
    /\ \A i \in 1..Len(nodes) : InEmptyBranch(nodes, i) => i \notin Range(visited)

\* an IfBlock whose else branch holds a ForLoopBlock with a node in its
\* empty branch: the ForLoopBlock is visited, the node is not
C22_Witness ==
  /\ pc = "returned"
  /\ Len(nodes) = 3
  /\ nodes[1].className = IfBlockClass
  /\ nodes[2].className = ForLoopBlockClass /\ nodes[2].parent = 1 /\ nodes[2].slot = 2
  /\ nodes[3].parent = 2 /\ nodes[3].slot = 2
  /\ Range(visited) = {1, 2}

(***************************************************************************)
(* Properties of the element record of findElements                        *)
(***************************************************************************)
\* the element record with, for every property binding, the source text as
\* value when the binding is a literal and the empty string when it is not
LiteralSourceInfo(node) ==
  [tagName |-> node.name,
   classList |-> ElementInfo(node).classList,
   attributes |->
     [i \in 1..Len(node.attributes) |->
        Attr(node.attributes[i].name, node.attributes[i].value)]
     \o [i \in 1..Len(node.inputs) |->
           Attr(node.inputs[i].name,
                IF node.inputs[i].value.ast.type = "LiteralPrimitive"
                THEN node.inputs[i].value.source ELSE <<>>)]]

\* C23: findElements returns exactly the reachable elements whose record,
\* with a property binding's source text as attribute value only when the
\* binding is a literal and the empty string otherwise, matches the
\* selector: [p] matches an element with [p]="expr" and [p=expr] does not.
C23_LiteralSourceOnly ==
  (pc = "returned" /\ query.op = "findElements") =>
    LET alternatives == parse(query.arg).selectors
        Wanted(i) ==
          /\ nodes[i].className = ElementClass
          /\ \E a \in 1..Len(alternatives) :
               MatchConditions(alternatives[a], LiteralSourceInfo(nodes[i]))
    IN {result[n].node : n \in 1..Len(result)} = {i \in Reachable(nodes) : Wanted(i)}

(***************************************************************************)
(* Properties of parse calls one after another                             *)
(***************************************************************************)
\* C24: whatever calls of parse came before, and whether they returned or
\* threw, a call of parse on a string has the result or the error of a
\* first-ever call on that string, which finds the regular expression at
\* position 0.
C24_ParseForgetsEarlierCalls ==
  pc \in {"parsed", "threw"} => parsed = Outcome(ParseLoop(selector, 0, ParseStart))

\* a call that returns two selectors right after a call that threw at :not(
\* inside :not(
C24_Witness ==
  /\ pc = "parsed"
  /\ text = <<":", "n", "o", "t", "(", ":", "n", "o", "t", "(">>
  /\ selector = <<"a", ",">>
  /\ Len(parsed.selectors) = 2

(***************************************************************************)
(* Properties of the empty selector                                        *)
(***************************************************************************)
\* the string is empty or its last token is a comma, spaces around it included
EndsInComma(str) ==
  \/ str = <<>>
  \/ \E k \in 1..Len(str) :
       /\ str[k] = ","
       /\ \A j \in (k + 1)..Len(str) : str[j] \in SpaceChars

\* C25: parse returns at least one selector for every string it accepts, a
\* selector on which nothing is set matches the record of every element,
\* and findElements with the empty string or with an accepted string that
\* ends in a comma returns every reachable Element node.
C25_EmptySelectorMatchesAll ==
  (query.op = "findElements" /\ pc \in {"walking", "returned"}) =>
    /\ parse(query.arg).ok => Len(parse(query.arg).selectors) >= 1
    /\ \A i \in 1..Len(nodes) :
         nodes[i].className = ElementClass => matches(NewCssSelector, ElementInfo(nodes[i]))
    /\ (pc = "returned" /\ EndsInComma(query.arg)) =>
         {result[n].node : n \in 1..Len(result)} =
           {i \in Reachable(nodes) : nodes[i].className = ElementClass}

\* <div class="test" ...><span></span></div> asked for span, : both elements
C25_Witness ==
  /\ pc = "returned"
  /\ query = [op |-> "findElements", arg |-> <<"s", "p", "a", "n", ",">>]
  /\ nodes = << DivTest, [Span EXCEPT !.parent = 1] >>
  /\ Len(result) = 2

\* C26: after any createSourceFile calls the registered paths are exactly
\* the paths of the project's source files that declare a class decorated
\* with @Component, and every registered ComponentFile is a component.
C26_RegisteredAreTheComponents ==
  /\ DOMAIN componentFiles = {f.filePath : f \in {g \in tsProject : g.text.decorated}}
  /\ \A key \in DOMAIN componentFiles : componentFiles[key].componentDecorator

(***************************************************************************)
(* Properties of the expression walk                                       *)
(***************************************************************************)
\* the nodes of an expression that have only calls and property reads above
\* them
RECURSIVE NodesBelowCallsAndReads(_)
NodesBelowCallsAndReads(ast) ==
  {ast} \cup
    (IF ast.type \in {"Call", "PropertyRead"}
     THEN UNION {NodesBelowCallsAndReads(ast.receiver[i]) : i \in 1..Len(ast.receiver)}
          \cup UNION {NodesBelowCallsAndReads(ast.args[i]) : i \in 1..Len(ast.args)}
     ELSE {})

\* C27: the names in referencedProperties are those of the implicit-receiver
\* property reads that have only call and property-read nodes above them, a
\* call's arguments coming before its receiver; a read below a node of any
\* other kind adds nothing, and the list is empty when the root of the
\* expression is of another kind.
C27_WalkStopsAtOtherKinds ==
  (pc = "analyzed" /\ HasDependencies(record) /\ expr.isASTWithSource) =>
    /\ Range(record.referencedProperties) =
         {n.name : n \in {m \in NodesBelowCallsAndReads(expr.ast) :
                            /\ m.type = "PropertyRead"
                            /\ m.receiver[1].type = "ImplicitReceiver"}}
    /\ expr.ast.type \notin {"Call", "PropertyRead"} => record.referencedProperties = <<>>
    /\ (expr.ast.type = "Call" /\ expr.ast.receiver[1] = Read(<<"b">>)
          /\ expr.ast.args = <<Read(<<"a">>)>>) =>
         record.referencedProperties = << <<"a">>, <<"b">> >>

\* a[b] as the value of a property binding: nothing is referenced
C27_Witness ==
  /\ pc = "analyzed"
  /\ record.type = "PropertyBinding"
  /\ expr.isASTWithSource
  /\ expr.ast = KeyedRead(Read(<<"a">>), Read(<<"b">>))
  /\ record.referencedProperties = <<>>

(***************************************************************************)
(* Properties of the type guards                                           *)
(***************************************************************************)
\* the guards traverseNodes uses
TraversalGuards == {"element", "template", "ifBlock", "forBlock", "switchBlock"}

\* C28: a guard of is returns true exactly for a node of the class it is
\* declared for and false for a node of every other class, and at most one
\* of the guards the traversal uses holds for a node.
C28_GuardsExact ==
  pc = "guarded" =>
    /\ result[1] = (nodes[1].className = GuardedClass[query.op])
    /\ Cardinality({g \in TraversalGuards : is(g, nodes[1])}) <= 1

====
